---- MODULE Spec2Model ----
(***************************************************************************)
(* A model of the AutomationAgent repository: the job scheduler of         *)
(* lib/automation_agent.py (add_job, launch_jobs, poll_jobs, queue_tasks,  *)
(* main_task, run) and the per-dataset state machine of                    *)
(* lib/dataset_processor.py (add_dataset, process, process_dataset,        *)
(* assess_setup, assess_download).                                         *)
(*                                                                         *)
(* Python objects that are shared by reference (a FileRecord is referenced *)
(* by its dataset, by the task that asks for it and by the job that        *)
(* downloads it) live in a heap, `files`, and are referred to by index.    *)
(* Time is kept as ages (seconds since launch, seconds since the last      *)
(* modification of a file), saturated just above the staleness window.     *)
(***************************************************************************)
EXTENDS Integers, Sequences, FiniteSets, TLC

(***************************************************************************)
(* Bounds of the model                                                     *)
(***************************************************************************)
\* job_index is not allowed to grow past this (the counter is unbounded).
MaxJobIndex == 3
\* The same cap in SpecRetry, which follows one download through all its
\* retries.
MaxJobIndexRetry == 13
MaxJobIndexCaps == 5
MaxQueued == 3
\* Lines the operator appends to agent_commands.txt during a run.
MaxCommands == 2
\* Seconds that pass in one step of the clock.
TickSeconds == 30
\* FileRecords the processor creates when it is driven directly.
MaxFiles == 4

(***************************************************************************)
(* Program constants                                                       *)
(***************************************************************************)
\* queue_tasks: 'retry_staleness': 30
retry_staleness == 30
\* queue_tasks: 'max_retries': 10
max_retries == 10
\* poll_jobs: time.sleep(5) after terminating a stalled job
KillSleep == 5

\* A dictionary key that is absent (integer-valued fields).
NoKey == -1
\* No path: the job has no 'expected_output_file'.
NoPath == <<>>
\* No FileRecord: the dataset has no manifest['file'] yet, the job has no
\* 'file_handle'.
NoFile == 0

\* Ages are kept up to one second past the staleness window: every
\* comparison the code makes (age > retry_staleness) is preserved.
MaxAge == retry_staleness + 1

Min(a, b) == IF a < b THEN a ELSE b

(***************************************************************************)
(* File names, as sequences of characters, so that the regular expressions *)
(* of the code are computed rather than assumed.                           *)
(***************************************************************************)
A_RAW == <<"a", ".", "r", "a", "w">>
B_RAW == <<"b", ".", "R", "A", "W">>
C_RAW == <<"c", ".", "r", "a", "w">>
NOTES == <<"n", ".", "t", "x", "t">>
README == <<"R", "E", "A", "D", "M", "E", ".", "t", "x", "t">>

\* str.endswith(suffix)
EndsWith(name, suffix) ==
    /\ Len(name) >= Len(suffix)
    /\ SubSeq(name, Len(name) - Len(suffix) + 1, Len(name)) = suffix

\* get_ftp_dir_listing: filename.endswith('.raw') or filename.endswith('.RAW')
IsRawName(name) ==
    \/ EndsWith(name, <<".", "r", "a", "w">>)
    \/ EndsWith(name, <<".", "R", "A", "W">>)

\* The positions of '.' that re.match(r'(.+)\.(.+)?$', filename) can use: at
\* least one character before the dot.
DotPositions(name) == {i \in 2..Len(name) : name[i] = "."}

\* assess_download: match = re.match(r'(.+)\.(.+)?$', filename); the greedy
\* (.+) takes everything up to the last dot. <<>> when there is no match.
Fileroot(name) ==
    IF DotPositions(name) = {} THEN <<>>
    ELSE LET last == CHOOSE i \in DotPositions(name) :
                         \A j \in DotPositions(name) : j <= i
         IN SubSeq(name, 1, last - 1)

\* re.match(r'.+?/([A-Z\d]+)$', location) with location = base_dir/dataset_id,
\* and match.group(1) == dataset_id: the identifier is made of capitals and
\* digits only.
UpperOrDigit == {"P", "X", "D", "1", "2", "3", "4", "5", "6", "7", "8", "9", "0"}
LocationMatches(dataset_id) ==
    /\ Len(dataset_id) > 0
    /\ \A i \in 1..Len(dataset_id) : dataset_id[i] \in UpperOrDigit

PXD1 == <<"P", "X", "D", "1">>
PXD2 == <<"P", "X", "D", "2">>
\* An identifier the location check refuses.
BAD_ID == <<"p", "x", "d">>
DatasetIds == {PXD1, PXD2, BAD_ID}

(***************************************************************************)
(* The ProteomeXchange side: what GetDataset answers for a dataset and     *)
(* what the FTP server lists. It does not change during a run.             *)
(*   fetch    "ok" | "http_error" (status_code != 200) | "unparsable"      *)
(*   links    the record has fullDatasetLinks with 'Dataset FTP location'  *)
(*   has_files the record has datasetFiles                                 *)
(*   files    the names in its 'Associated raw file URI' entries           *)
(*   listing  what nlst() returns at the FTP location                      *)
(***************************************************************************)
PXRecord(fetch, links, has_files, files, listing) ==
    [fetch |-> fetch, links |-> links, has_files |-> has_files,
     files |-> files, listing |-> listing]

PX_ONE == PXRecord("ok", TRUE, TRUE, <<A_RAW>>, <<>>)
PX_TWO == PXRecord("ok", TRUE, TRUE, <<A_RAW, B_RAW>>, <<>>)
PX_NONE == PXRecord("ok", TRUE, TRUE, <<>>, <<>>)
PX_NOFTP == PXRecord("ok", FALSE, TRUE, <<A_RAW>>, <<>>)
PX_LISTED == PXRecord("ok", TRUE, FALSE, <<>>, <<NOTES, A_RAW>>)
PX_EMPTYDIR == PXRecord("ok", TRUE, FALSE, <<>>, <<NOTES>>)
PX_HTTP == PXRecord("http_error", TRUE, TRUE, <<>>, <<>>)
PX_GARBLED == PXRecord("unparsable", TRUE, TRUE, <<>>, <<>>)
PX_THREE == PXRecord("ok", TRUE, TRUE, <<A_RAW, B_RAW, C_RAW>>, <<>>)
PX_LISTED3 == PXRecord("ok", TRUE, FALSE, <<>>, <<A_RAW, NOTES, B_RAW, C_RAW>>)
PX_REPEATED == PXRecord("ok", TRUE, TRUE, <<A_RAW, B_RAW, A_RAW>>, <<>>)

VARIABLES
    \* ---- the environment
    remote,          \* dataset id -> PXRecord
    disk,            \* path <<dataset id, file name>> of each existing file -> age of its mtime
    cmd_file,        \* agent_commands.txt: the lines written so far
    stop_file,       \* the STOP marker exists
    pid_file,        \* the PID marker exists
    peers,           \* the other agent objects made in the directory -> where each is
    pointer_file,    \* agent_commands.pointer: the number in it, NoKey when absent
    \* ---- AutomationAgent
    pc,              \* where the agent is in start() / run() / main_task()
    config,          \* self.config: max_running_jobs, max_running_jobs_by_type
    command_pointer, \* self.state['command_pointer']
    jobs,            \* self.jobs: job id -> job
    job_control,     \* self.job_control
    response,        \* self.response: the error codes reported to it
    \* ---- DatasetProcessor
    dataset_ids,     \* insertion order of self.datasets['identifiers']
    datasets,        \* self.datasets['identifiers']
    files,           \* the heap of FileRecord dictionaries
    tasks_todo,      \* self.tasks_todo
    dp_response,     \* DatasetProcessor.response: the error codes reported to it
    \* ---- history
    ids_used,        \* the job ids add_job has used, in the order of the calls
    kills            \* oid of a job -> the times poll_jobs has terminated it as stalled

\* The other agent objects that may be made in the directory.
MaxPeers == 2
PeerIds == 1..MaxPeers

\* None of the other agents has been started.
NoPeers == [a \in PeerIds |-> "start"]

env_vars == <<remote, disk, cmd_file, stop_file, pid_file, peers, pointer_file>>
agent_vars == <<pc, config, command_pointer, jobs, job_control, response>>
dp_vars == <<dataset_ids, datasets, files, tasks_todo, dp_response>>
history_vars == <<ids_used, kills>>
vars == <<env_vars, agent_vars, dp_vars, history_vars>>

(***************************************************************************)
(* Response (lib/response.py): error() records the error and turns the     *)
(* status of the response from 'OK' to 'ERROR'; merge() carries the        *)
(* errors of another response over.                                        *)
(***************************************************************************)
ResponseError(errors, error_code) == errors \cup {error_code}
ResponseStatus(errors) == IF errors = {} THEN "OK" ELSE "ERROR"
ResponseMerge(errors, other) == errors \cup other

(***************************************************************************)
(* DatasetProcessor                                                        *)
(*                                                                         *)
(* Its methods are written as functions of the processor's state           *)
(*   s = [datasets, dataset_ids, files, tasks_todo, errors]                *)
(* so that process() can apply process_dataset to every dataset in turn.   *)
(***************************************************************************)
DPState == [datasets |-> datasets, dataset_ids |-> dataset_ids, files |-> files,
            tasks_todo |-> tasks_todo, errors |-> dp_response]

\* A FileRecord dictionary (file_info, manifest['file']).
FileRecord(status, path) ==
    [status |-> status, is_complete |-> (status = "READY"),
     current_size |-> "None", full_path |-> path]

\* add_dataset: the dictionary a dataset starts as. 'manifest', 'px_data' and
\* 'ms_runs' are not in its metadata yet. ms_runs[fileroot] is the 'raw_file'
\* of the run, mzML_file[fileroot] and mzML_gz_file[fileroot] are its
\* 'mzML_file' and 'mzML_gz_file' when it has them.
NewDataset ==
    [status |-> "QUEUED", processing_state |-> "Queued", has_px |-> FALSE,
     ftp_location |-> FALSE, manifest_status |-> "absent",
     manifest_file |-> NoFile, ms_runs |-> <<>>,
     mzML_file |-> <<>>, mzML_gz_file |-> <<>>]

\* self.datasets['identifiers'][dataset_id] = dataset: a new key goes to the end
\* of the dictionary, an existing key keeps its place and gets the new value.
add_dataset(s, dataset_id) ==
    IF dataset_id \in DOMAIN s.datasets
    THEN [s EXCEPT !.datasets[dataset_id] = NewDataset]
    ELSE [s EXCEPT !.datasets = @ @@ (dataset_id :> NewDataset),
                   !.dataset_ids = Append(@, dataset_id)]

\* dataset['status'] = 'ERROR'; dataset['state']['processing_state'] = code;
\* response.error(..., error_code=code)
SetError(s, d, code) ==
    [s EXCEPT !.datasets[d].status = "ERROR",
              !.datasets[d].processing_state = code,
              !.errors = ResponseError(@, code)]

\* assess_setup in mode 'assess' (processing_state 'Queued'). The dataset
\* directory and the cached ProteomeXchange.json do not exist before the first
\* assessment, os.mkdir succeeds, and the record fetched is remote[d].
assess_setup(s, d) ==
    LET s1 == [s EXCEPT !.datasets[d].status = "PROCESSING"]
    IN  IF ~LocationMatches(d) THEN SetError(s1, d, "InvalidLocation")
        ELSE IF remote[d].fetch = "http_error"
        THEN SetError(s1, d, "CannotFetchPXRecord")
        ELSE IF remote[d].fetch = "unparsable"
        THEN SetError(s1, d, "CannotParsePXJSON")
        ELSE LET s2 == [s1 EXCEPT !.datasets[d].has_px = TRUE,
                                  !.datasets[d].ftp_location = remote[d].links]
                 \* no FTP location: ERROR is set and reported, and the code goes on
                 s3 == IF remote[d].links THEN s2
                       ELSE SetError(s2, d, "CannotFindfullDatasetLinks")
             IN  [s3 EXCEPT !.datasets[d].processing_state = "Ready to download"]

\* A manifest part that asks for the download without noting that it did.
assess_manifest_reasking(s, d) ==
    LET ds == s.datasets[d]
        st == IF ds.manifest_status = "absent" THEN "UNKNOWN" ELSE ds.manifest_status
        path == <<d, README>>
        new == Len(s.files) + 1
        s1 == [s EXCEPT !.datasets[d].manifest_status = st]
    IN  IF st \in {"READY", "UNAVAILABLE"} THEN s1
        ELSE IF path \in DOMAIN disk
        THEN [s1 EXCEPT !.datasets[d].manifest_status = "READY",
                        !.datasets[d].manifest_file = new,
                        !.files = Append(@, FileRecord("READY", path))]
        ELSE [s1 EXCEPT !.datasets[d].manifest_file = new,
                        !.files = Append(@, FileRecord("TODO", path)),
                        !.tasks_todo = Append(@, [command |-> "download_file",
                                                  file_metadata |-> new])]

\* assess_download, the manifest part ("Check on the dataset manifest").
assess_manifest(s, d) ==
    LET ds == s.datasets[d]
        st == IF ds.manifest_status = "absent" THEN "UNKNOWN" ELSE ds.manifest_status
        path == <<d, README>>
        new == Len(s.files) + 1
        s1 == [s EXCEPT !.datasets[d].manifest_status = st]
    IN  IF st \in {"READY", "UNAVAILABLE"} THEN s1
        ELSE IF path \in DOMAIN disk
        THEN [s1 EXCEPT !.datasets[d].manifest_status = "READY",
                        !.datasets[d].manifest_file = new,
                        !.files = Append(@, FileRecord("READY", path))]
        ELSE IF st = "UNKNOWN"
        THEN [s1 EXCEPT !.datasets[d].manifest_status = "DOWNLOADING",
                        !.datasets[d].manifest_file = new,
                        !.files = Append(@, FileRecord("TODO", path)),
                        !.tasks_todo = Append(@, [command |-> "download_file",
                                                  file_metadata |-> new])]
        ELSE IF s.files[ds.manifest_file].status = "UNAVAILABLE"
        THEN [s1 EXCEPT !.datasets[d].manifest_status = "UNAVAILABLE"]
        ELSE s1

\* get_ftp_dir_listing: [s, ms_runs, ok]; ok = FALSE is its bare `return`.
\* The FTP session itself succeeds.
get_ftp_dir_listing(s, d) ==
    LET s1 == [s EXCEPT !.datasets[d].status = "PROCESSING"]
    IN  IF ~remote[d].links
        THEN [s |-> SetError(s1, d, "CannotFindfullDatasetLinks"),
              ms_runs |-> <<>>, ok |-> FALSE]
        ELSE [s |-> s1, ms_runs |-> SelectSeq(remote[d].listing, IsRawName),
              ok |-> TRUE]

\* A loop over the runs that does not ask whether the fileroot is tracked.
RECURSIVE track_ms_runs_untracked(_, _, _, _)
track_ms_runs_untracked(s, d, runs, missing) ==
    IF runs = <<>> THEN [s |-> s, missing |-> missing, failed |-> FALSE]
    ELSE LET filename == Head(runs)
             fileroot == Fileroot(filename)
             path == <<d, filename>>
             new == Len(s.files) + 1
             status == IF path \in DOMAIN disk THEN "READY" ELSE "TODO"
             s1 == [s EXCEPT !.files = Append(@, FileRecord(status, path)),
                             !.datasets[d].ms_runs = (fileroot :> new) @@ @]
             s2 == [s1 EXCEPT !.tasks_todo = Append(@, [command |-> "download_file",
                                                        file_metadata |-> new]),
                              !.datasets[d].status = "PROCESSING",
                              !.datasets[d].processing_state = "Downloading"]
         IN  IF fileroot = <<>>
             THEN [s |-> SetError(s, d, "FailedFileRootMatch"),
                   missing |-> missing, failed |-> TRUE]
             ELSE IF status = "TODO"
             THEN track_ms_runs_untracked(s2, d, Tail(runs), missing + 1)
             ELSE track_ms_runs_untracked(s1, d, Tail(runs), missing)

\* assess_download, "Loop over the runs we have and process": [s, missing,
\* failed] after the file names in `runs`. A fileroot that is already tracked is
\* passed over (the names of one record have different fileroots).
RECURSIVE track_ms_runs(_, _, _, _)
track_ms_runs(s, d, runs, missing) ==
    IF runs = <<>> THEN [s |-> s, missing |-> missing, failed |-> FALSE]
    ELSE LET filename == Head(runs)
             fileroot == Fileroot(filename)
             path == <<d, filename>>
             new == Len(s.files) + 1
             status == IF path \in DOMAIN disk THEN "READY" ELSE "TODO"
             s1 == [s EXCEPT !.files = Append(@, FileRecord(status, path)),
                             !.datasets[d].ms_runs = @ @@ (fileroot :> new)]
             s2 == [s1 EXCEPT !.tasks_todo = Append(@, [command |-> "download_file",
                                                        file_metadata |-> new]),
                              !.datasets[d].status = "PROCESSING",
                              !.datasets[d].processing_state = "Downloading"]
         IN  IF fileroot = <<>>
             THEN [s |-> SetError(s, d, "FailedFileRootMatch"),
                   missing |-> missing, failed |-> TRUE]
             ELSE IF fileroot \in DOMAIN s.datasets[d].ms_runs
             THEN track_ms_runs(s, d, Tail(runs), missing)
             ELSE IF status = "TODO"
             THEN track_ms_runs(s2, d, Tail(runs), missing + 1)
             ELSE track_ms_runs(s1, d, Tail(runs), missing)

\* assess_download; mode is always 'assess' (the state that would make it
\* 'verify', 'Ready for conversion', is never assigned).
assess_download(s, d) ==
    LET s1 == assess_manifest(s, d)
        previous_msruns == DOMAIN s1.datasets[d].ms_runs
        listed == IF remote[d].has_files
                  THEN [s |-> s1, ms_runs |-> remote[d].files, ok |-> TRUE]
                  ELSE get_ftp_dir_listing(s1, d)
        tracked == track_ms_runs(listed.s, d, listed.ms_runs, 0)
    IN  IF previous_msruns # {}
        THEN s1      \* len(previous_msruns) != 0: return, the state is not assigned
        ELSE IF ~remote[d].has_files /\ (~listed.ok \/ Len(listed.ms_runs) = 0)
        THEN [listed.s EXCEPT
                 !.datasets[d].status = "ERROR",
                 !.datasets[d].processing_state = "DatasetFilesFailedFTPDirListing"]
        ELSE IF tracked.failed THEN tracked.s
        ELSE IF tracked.missing # 0 THEN tracked.s
        ELSE [tracked.s EXCEPT !.datasets[d].processing_state = "Ready to convert"]

\* filename = f"{fileroot}.mzML"
MzMLName(fileroot) == fileroot \o <<".", "m", "z", "M", "L">>

\* assess_mzML, "Loop over the MS runs and queue a conversion job", for the
\* runs `roots` in the order they were put into ms_runs.
RECURSIVE queue_conversions(_, _, _)
queue_conversions(s, d, roots) ==
    IF roots = {} THEN s
    ELSE LET ms_runs == s.datasets[d].ms_runs
             fileroot == CHOOSE r \in roots : \A o \in roots : ms_runs[r] <= ms_runs[o]
             have_mzML == fileroot \in DOMAIN s.datasets[d].mzML_file
             have_mzML_gz == fileroot \in DOMAIN s.datasets[d].mzML_gz_file
             new == Len(s.files) + 1
             s1 == [s EXCEPT !.files = Append(@, FileRecord("TODO", <<d, MzMLName(fileroot)>>)),
                             !.datasets[d].mzML_file = (fileroot :> new) @@ @,
                             !.tasks_todo = Append(@, [command |-> "convert_to_mzML",
                                                       file_metadata |-> new])]
         IN  queue_conversions(IF ~have_mzML /\ ~have_mzML_gz THEN s1 ELSE s,
                               d, roots \ {fileroot})

\* assess_mzML. No statement of the code calls it.
assess_mzML(s, d) ==
    queue_conversions([s EXCEPT !.datasets[d].status = "PROCESSING"], d,
                      DOMAIN s.datasets[d].ms_runs)

\* The states process_dataset hands to assess_conversion; no statement ever
\* assigns them.
NeverAssignedStates == {"Converting", "Ready to compress", "Compressing"}

\* A process_dataset whose `while 1` loop goes round a second time instead of
\* leaving at `break`.
process_dataset_looping(s, d) ==
    LET pass(x) ==
            LET x1 == [x EXCEPT !.datasets[d].status = "PROCESSING"]
                state == x.datasets[d].processing_state
            IN  CASE state \in {"Queued", "Set up"} -> assess_setup(x1, d)
                  [] state \in {"Ready to download", "Downloading"} -> assess_download(x1, d)
                  [] state = "Ready to convert" ->
                         [x1 EXCEPT !.datasets[d].processing_state = "Wait"]
                  [] state = "Wait" -> [x1 EXCEPT !.datasets[d].status = "READY"]
                  [] state \in NeverAssignedStates -> x1
                  [] OTHER -> [x1 EXCEPT !.datasets[d].status = "ERROR"]
    IN  pass(pass(s))

\* process_dataset: one pass of its `while 1` loop, which ends in `break`.
process_dataset(s, d) ==
    LET s1 == [s EXCEPT !.datasets[d].status = "PROCESSING"]
        state == s.datasets[d].processing_state
    IN  CASE state \in {"Queued", "Set up"} -> assess_setup(s1, d)
          [] state \in {"Ready to download", "Downloading"} -> assess_download(s1, d)
          [] state = "Ready to convert" ->
                 [s1 EXCEPT !.datasets[d].processing_state = "Wait"]
          [] state = "Wait" -> [s1 EXCEPT !.datasets[d].status = "READY"]
          [] state \in NeverAssignedStates -> s1
          [] OTHER -> [s1 EXCEPT !.datasets[d].status = "ERROR"]

\* process: for dataset_id in self.datasets['identifiers']
RECURSIVE process_from(_, _)
process_from(s, ids) ==
    IF ids = <<>> THEN s
    ELSE process_from(process_dataset(s, Head(ids)), Tail(ids))

process(s) == process_from(s, s.dataset_ids)


(***************************************************************************)
(* AutomationAgent: the job scheduler                                      *)
(*                                                                         *)
(* Its methods are functions of the scheduler's state                      *)
(*   q = [jobs, job_control, files, disk, errors, raised, ids_used, kills] *)
(* `raised` is set when the method raises (a KeyError) and so never        *)
(* completes. A job is                                                     *)
(*   type, status 'qw' | 'run' | 'redo',                                   *)
(*   handle  "None" | "alive" (proc.poll() is None) | "exited" (return     *)
(*           code 0) | "failed" (any other return code),                   *)
(*   age     seconds since launch_timestamp,                               *)
(*   retry_staleness, n_retries, max_retries, file_handle,                 *)
(*   expected_output_file (NoKey, NoFile, NoPath: the key is absent),      *)
(*   oid     the identity of the Python dictionary: the id the job was     *)
(*           first added under (a requeued job is the same dictionary).    *)
(***************************************************************************)
JobTypes == {"download"}

SchedState == [jobs |-> jobs, job_control |-> job_control, files |-> files,
               disk |-> disk, errors |-> response, raised |-> FALSE,
               ids_used |-> ids_used, kills |-> kills]

\* queue_tasks: the job of a download_file task.
DownloadJob(file_metadata, full_path) ==
    [type |-> "download", status |-> "qw", handle |-> "None", age |-> 0,
     retry_staleness |-> retry_staleness, n_retries |-> 0,
     max_retries |-> max_retries, file_handle |-> file_metadata,
     expected_output_file |-> full_path, oid |-> 0]

\* main_task: the job of a `get` command.
GetJob ==
    [type |-> "download", status |-> "qw", handle |-> "None", age |-> 0,
     retry_staleness |-> NoKey, n_retries |-> NoKey, max_retries |-> NoKey,
     file_handle |-> NoFile, expected_output_file |-> NoPath, oid |-> 0]

\* An add_job that forgets `self.job_control['job_index'] += 1`.
add_job_same_index(q, job) ==
    LET job_index == q.job_control.job_index
        named == IF job.oid = 0 THEN [job EXCEPT !.oid = job_index] ELSE job
    IN  [q EXCEPT !.jobs = (job_index :> named) @@ @,
                  !.job_control.n_jobs = @ + 1,
                  !.ids_used = Append(@, job_index)]

\* add_job
add_job(q, job) ==
    LET job_index == q.job_control.job_index
        named == IF job.oid = 0 THEN [job EXCEPT !.oid = job_index] ELSE job
    IN  [q EXCEPT !.jobs = (job_index :> named) @@ @,
                  !.job_control.n_jobs = @ + 1,
                  !.job_control.job_index = @ + 1,
                  !.ids_used = Append(@, job_index)]

\* The elements of a set of job ids in increasing order: the order of the
\* dictionary self.jobs, whose keys are inserted in increasing order.
RECURSIVE InOrder(_)
InOrder(ids) ==
    IF ids = {} THEN <<>>
    ELSE LET least == CHOOSE i \in ids : \A j \in ids : i <= j
         IN  <<least>> \o InOrder(ids \ {least})

\* A list of the waiting jobs that gives the requeued ones no priority.
jobs_list_unranked(q) ==
    InOrder({i \in DOMAIN q.jobs : q.jobs[i].status # "run"})

\* launch_jobs, "Loop through the jobs to determine priority"
jobs_list(q) ==
    LET urgent_jobs_list == InOrder({i \in DOMAIN q.jobs : q.jobs[i].status = "redo"})
        other_jobs_list == InOrder({i \in DOMAIN q.jobs :
                                       q.jobs[i].status \notin {"run", "redo"}})
    IN  urgent_jobs_list \o other_jobs_list

\* A launch loop that starts the job without looking at the cap of its type.
launch_job_nocap(q, job_id) ==
    LET job_type == q.jobs[job_id].type
        by_type == q.job_control.n_running_jobs_by_type
        counted == IF job_type \in DOMAIN by_type THEN by_type
                   ELSE by_type @@ (job_type :> 0)
        q1 == [q EXCEPT !.job_control.n_running_jobs_by_type = counted]
    IN  [q1 EXCEPT !.jobs[job_id].handle = "alive",
                   !.jobs[job_id].status = "run",
                   !.jobs[job_id].age = 0,
                   !.job_control.n_running_jobs = @ + 1,
                   !.job_control.n_running_jobs_by_type[job_type] = @ + 1]

\* A launch loop that starts the jobs that wait for the first time only.
launch_job_fresh_only(q, job_id) ==
    LET job_type == q.jobs[job_id].type
        by_type == q.job_control.n_running_jobs_by_type
        counted == IF job_type \in DOMAIN by_type THEN by_type
                   ELSE by_type @@ (job_type :> 0)
        q1 == [q EXCEPT !.job_control.n_running_jobs_by_type = counted]
    IN  IF counted[job_type] >= config.max_running_jobs_by_type[job_type]
           \/ q.jobs[job_id].status # "qw"
        THEN q1
        ELSE [q1 EXCEPT !.jobs[job_id].handle = "alive",
                        !.jobs[job_id].status = "run",
                        !.jobs[job_id].age = 0,
                        !.job_control.n_running_jobs = @ + 1,
                        !.job_control.n_running_jobs_by_type[job_type] = @ + 1]

\* launch_jobs, the body of "Loop through the jobs and see if any can be
\* started" for one job. Popen succeeds.
launch_job(q, job_id) ==
    LET job_type == q.jobs[job_id].type
        by_type == q.job_control.n_running_jobs_by_type
        counted == IF job_type \in DOMAIN by_type THEN by_type
                   ELSE by_type @@ (job_type :> 0)
        q1 == [q EXCEPT !.job_control.n_running_jobs_by_type = counted]
    IN  IF counted[job_type] >= config.max_running_jobs_by_type[job_type]
        THEN q1
        ELSE [q1 EXCEPT !.jobs[job_id].handle = "alive",
                        !.jobs[job_id].status = "run",
                        !.jobs[job_id].age = 0,
                        !.job_control.n_running_jobs = @ + 1,
                        !.job_control.n_running_jobs_by_type[job_type] = @ + 1]

RECURSIVE launch_from(_, _)
launch_from(q, ids) ==
    IF ids = <<>> THEN q
    ELSE launch_from(launch_job(q, Head(ids)), Tail(ids))

\* launch_jobs, the body of the loop for a job whose os.chdir or
\* subprocess.Popen raises (no such directory, no such program): nothing
\* catches the exception, the statements after the call are not reached.
launch_job_raises(q, job_id) ==
    LET job_type == q.jobs[job_id].type
        by_type == q.job_control.n_running_jobs_by_type
        counted == IF job_type \in DOMAIN by_type THEN by_type
                   ELSE by_type @@ (job_type :> 0)
        q1 == [q EXCEPT !.job_control.n_running_jobs_by_type = counted]
    IN  IF counted[job_type] >= config.max_running_jobs_by_type[job_type]
        THEN q1
        ELSE [q1 EXCEPT !.raised = TRUE]

\* The loop of launch_jobs when the launch of job `failing` raises.
RECURSIVE launch_until(_, _, _)
launch_until(q, ids, failing) ==
    IF ids = <<>> \/ q.raised THEN q
    ELSE IF Head(ids) = failing
    THEN launch_until(launch_job_raises(q, Head(ids)), Tail(ids), failing)
    ELSE launch_until(launch_job(q, Head(ids)), Tail(ids), failing)

\* launch_jobs
launch_jobs(q) ==
    IF q.job_control.n_jobs = 0 THEN q
    ELSE IF q.job_control.n_running_jobs >= config.max_running_jobs THEN q
    ELSE launch_from(q, jobs_list(q))


\* Seconds `elapsed` later: the ages of the files and of the running jobs.
Older(age, elapsed) == Min(age + elapsed, MaxAge)

\* A judgement that takes either age beyond the window for a stall.
IsStalled_either(q, job, elapsed) ==
    /\ job.retry_staleness # NoKey
    /\ job.expected_output_file # NoPath
    /\ job.retry_staleness > 0
    /\ job.expected_output_file \in DOMAIN q.disk
    /\ \/ Older(q.disk[job.expected_output_file], elapsed) > job.retry_staleness
       \/ Older(job.age, elapsed) > job.retry_staleness

\* poll_jobs: the job is still running and is judged stalled, `elapsed` seconds
\* after the scan began.
IsStalled(q, job, elapsed) ==
    /\ job.retry_staleness # NoKey
    /\ job.expected_output_file # NoPath
    /\ job.retry_staleness > 0
    /\ job.expected_output_file \in DOMAIN q.disk
    /\ Older(q.disk[job.expected_output_file], elapsed) > job.retry_staleness
    /\ Older(job.age, elapsed) > job.retry_staleness

\* The number recorded for `key` in a function that holds none for the keys it
\* lacks.
Count(f, key) == IF key \in DOMAIN f THEN f[key] ELSE 0

\* A kill that gives the job up as soon as its retries have reached the limit.
kill_job_at_limit(p, job_id) ==
    LET job == p.q.jobs[job_id]
        n_retries == (IF job.n_retries = NoKey THEN 0 ELSE job.n_retries) + 1
        limit == IF job.max_retries = NoKey THEN 10 ELSE job.max_retries
        q1 == [p.q EXCEPT !.jobs[job_id].handle = "exited",
                          !.jobs[job_id].n_retries = n_retries,
                          !.jobs[job_id].max_retries = limit,
                          !.job_control.n_jobs = @ - 1,
                          !.job_control.n_running_jobs = @ - 1,
                          !.job_control.n_running_jobs_by_type[job.type] = @ - 1,
                          !.kills = (job.oid :> (Count(@, job.oid) + 1)) @@ @]
        p1 == [p EXCEPT !.q = q1,
                        !.elapsed = @ + KillSleep,
                        !.job_ids_to_delete = Append(@, job_id)]
    IN  IF n_retries >= limit
        THEN [p1 EXCEPT !.q.errors = ResponseError(@, "MaxRetriesReached")]
        ELSE [p1 EXCEPT !.jobs_to_restart = Append(@, job_id)]

\* A kill that forgets `self.job_control['n_running_jobs_by_type'][...] -= 1`.
kill_job_untyped(p, job_id) ==
    LET job == p.q.jobs[job_id]
        n_retries == (IF job.n_retries = NoKey THEN 0 ELSE job.n_retries) + 1
        limit == IF job.max_retries = NoKey THEN 10 ELSE job.max_retries
        q1 == [p.q EXCEPT !.jobs[job_id].handle = "exited",
                          !.jobs[job_id].n_retries = n_retries,
                          !.jobs[job_id].max_retries = limit,
                          !.job_control.n_jobs = @ - 1,
                          !.job_control.n_running_jobs = @ - 1,
                          !.kills = (job.oid :> (Count(@, job.oid) + 1)) @@ @]
        p1 == [p EXCEPT !.q = q1,
                        !.elapsed = @ + KillSleep,
                        !.job_ids_to_delete = Append(@, job_id)]
    IN  IF n_retries > limit
        THEN [p1 EXCEPT !.q.errors = ResponseError(@, "MaxRetriesReached")]
        ELSE [p1 EXCEPT !.jobs_to_restart = Append(@, job_id)]

\* poll_jobs, "Maximum staleness reached ... Kill and restart" for one job.
\* p = [q, job_ids_to_delete, jobs_to_restart, elapsed]
kill_job(p, job_id) ==
    LET job == p.q.jobs[job_id]
        n_retries == (IF job.n_retries = NoKey THEN 0 ELSE job.n_retries) + 1
        limit == IF job.max_retries = NoKey THEN 10 ELSE job.max_retries
        q1 == [p.q EXCEPT !.jobs[job_id].handle = "exited",
                          !.jobs[job_id].n_retries = n_retries,
                          !.jobs[job_id].max_retries = limit,
                          !.job_control.n_jobs = @ - 1,
                          !.job_control.n_running_jobs = @ - 1,
                          !.job_control.n_running_jobs_by_type[job.type] = @ - 1,
                          !.kills = (job.oid :> (Count(@, job.oid) + 1)) @@ @]
        p1 == [p EXCEPT !.q = q1,
                        !.elapsed = @ + KillSleep,
                        !.job_ids_to_delete = Append(@, job_id)]
    IN  IF n_retries > limit
        THEN [p1 EXCEPT !.q.errors = ResponseError(@, "MaxRetriesReached")]
        ELSE [p1 EXCEPT !.jobs_to_restart = Append(@, job_id)]

\* A close that forgets `self.job_control['n_jobs'] -= 1`.
close_job_uncounted(p, job_id) ==
    LET job == p.q.jobs[job_id]
        q1 == [p.q EXCEPT !.job_control.n_running_jobs = @ - 1,
                          !.job_control.n_running_jobs_by_type[job.type] = @ - 1]
        p1 == [p EXCEPT !.q = q1, !.job_ids_to_delete = Append(@, job_id)]
    IN  IF job.type # "download" THEN p1
        ELSE IF job.file_handle = NoFile
        THEN [p1 EXCEPT !.q.raised = TRUE]
        ELSE IF q1.files[job.file_handle].full_path \in DOMAIN q1.disk
        THEN [p1 EXCEPT !.q.files[job.file_handle].status = "READY",
                        !.q.files[job.file_handle].is_complete = TRUE,
                        !.q.files[job.file_handle].current_size = "size"]
        ELSE [p1 EXCEPT !.jobs_to_restart = Append(@, job_id)]

\* A close that trusts the exit and does not look for the output file.
close_job_trusting(p, job_id) ==
    LET job == p.q.jobs[job_id]
        q1 == [p.q EXCEPT !.job_control.n_jobs = @ - 1,
                          !.job_control.n_running_jobs = @ - 1,
                          !.job_control.n_running_jobs_by_type[job.type] = @ - 1]
        p1 == [p EXCEPT !.q = q1, !.job_ids_to_delete = Append(@, job_id)]
    IN  IF job.type # "download" THEN p1
        ELSE IF job.file_handle = NoFile
        THEN [p1 EXCEPT !.q.raised = TRUE]
        ELSE [p1 EXCEPT !.q.files[job.file_handle].status = "READY",
                        !.q.files[job.file_handle].is_complete = TRUE,
                        !.q.files[job.file_handle].current_size = "size"]

\* A close that counts the requeue of a job without its file as a retry and
\* gives the job up after max_retries of them.
close_job_counting(p, job_id) ==
    LET job == p.q.jobs[job_id]
        q1 == [p.q EXCEPT !.job_control.n_jobs = @ - 1,
                          !.job_control.n_running_jobs = @ - 1,
                          !.job_control.n_running_jobs_by_type[job.type] = @ - 1]
        p1 == [p EXCEPT !.q = q1, !.job_ids_to_delete = Append(@, job_id)]
    IN  IF job.type # "download" THEN p1
        ELSE IF job.file_handle = NoFile
        THEN [p1 EXCEPT !.q.raised = TRUE]
        ELSE IF q1.files[job.file_handle].full_path \in DOMAIN q1.disk
        THEN [p1 EXCEPT !.q.files[job.file_handle].status = "READY",
                        !.q.files[job.file_handle].is_complete = TRUE,
                        !.q.files[job.file_handle].current_size = "size"]
        ELSE IF job.n_retries + 1 > job.max_retries
        THEN [p1 EXCEPT !.q.errors = ResponseError(@, "MaxRetriesReached")]
        ELSE [p1 EXCEPT !.q.jobs[job_id].n_retries = @ + 1,
                        !.jobs_to_restart = Append(@, job_id)]

\* A close that takes a return code other than 0 for a failed download and
\* requeues the job.
close_job_by_code(p, job_id) ==
    LET job == p.q.jobs[job_id]
        q1 == [p.q EXCEPT !.job_control.n_jobs = @ - 1,
                          !.job_control.n_running_jobs = @ - 1,
                          !.job_control.n_running_jobs_by_type[job.type] = @ - 1]
        p1 == [p EXCEPT !.q = q1, !.job_ids_to_delete = Append(@, job_id)]
    IN  IF job.type # "download" THEN p1
        ELSE IF job.file_handle = NoFile
        THEN [p1 EXCEPT !.q.raised = TRUE]
        ELSE IF q1.files[job.file_handle].full_path \in DOMAIN q1.disk
                /\ job.handle # "failed"
        THEN [p1 EXCEPT !.q.files[job.file_handle].status = "READY",
                        !.q.files[job.file_handle].is_complete = TRUE,
                        !.q.files[job.file_handle].current_size = "size"]
        ELSE [p1 EXCEPT !.jobs_to_restart = Append(@, job_id)]

\* poll_jobs, "If the job has exited, close it off" for one job.
close_job(p, job_id) ==
    LET job == p.q.jobs[job_id]
        q1 == [p.q EXCEPT !.job_control.n_jobs = @ - 1,
                          !.job_control.n_running_jobs = @ - 1,
                          !.job_control.n_running_jobs_by_type[job.type] = @ - 1]
        p1 == [p EXCEPT !.q = q1, !.job_ids_to_delete = Append(@, job_id)]
    IN  IF job.type # "download" THEN p1
        ELSE IF job.file_handle = NoFile
        THEN [p1 EXCEPT !.q.raised = TRUE]       \* job['file_handle']: KeyError
        ELSE IF q1.files[job.file_handle].full_path \in DOMAIN q1.disk
        THEN [p1 EXCEPT !.q.files[job.file_handle].status = "READY",
                        !.q.files[job.file_handle].is_complete = TRUE,
                        !.q.files[job.file_handle].current_size = "size"]
        ELSE [p1 EXCEPT !.jobs_to_restart = Append(@, job_id)]

\* poll_jobs, the body of "Loop through the jobs and poll any running ones".
poll_job(p, job_id) ==
    LET job == p.q.jobs[job_id]
    IN  IF job.status # "run" THEN p
        ELSE IF job.handle = "alive"
        THEN IF IsStalled(p.q, job, p.elapsed) THEN kill_job(p, job_id) ELSE p
        ELSE close_job(p, job_id)

RECURSIVE poll_from(_, _)
poll_from(p, ids) ==
    IF ids = <<>> \/ p.q.raised THEN p
    ELSE poll_from(poll_job(p, Head(ids)), Tail(ids))

\* A requeue that does not mark the job 'redo'.
RECURSIVE restart_from_as_it_was(_, _, _)
restart_from_as_it_was(q, old, ids) ==
    IF ids = <<>> THEN q
    ELSE LET new_job == [old[Head(ids)] EXCEPT !.handle = "None", !.age = 0]
         IN  restart_from_as_it_was(add_job(q, new_job), old, Tail(ids))

\* poll_jobs, "If there are any jobs to restart, put them back in the queue".
\* `old` is the registry before the deletions. The handle of a job stands for
\* its 'handle' and its 'pid', which the code sets and clears together.
RECURSIVE restart_from(_, _, _)
restart_from(q, old, ids) ==
    IF ids = <<>> THEN q
    ELSE LET new_job == [old[Head(ids)] EXCEPT !.handle = "None",
                                               !.status = "redo", !.age = 0]
         IN  restart_from(add_job(q, new_job), old, Tail(ids))

\* The ages after the time.sleep(5) calls of one scan.
AfterSleep(q, elapsed) ==
    [q EXCEPT !.disk = [f \in DOMAIN @ |-> Older(@[f], elapsed)],
              !.jobs = [i \in DOMAIN @ |->
                           IF @[i].status = "run" /\ @[i].handle = "alive"
                           THEN [@[i] EXCEPT !.age = Older(@, elapsed)]
                           ELSE @[i]]]

\* del self.jobs[job_id] for the ids of job_ids_to_delete
delete_jobs(q, ids) ==
    LET gone == {ids[k] : k \in 1..Len(ids)}
    IN  [q EXCEPT !.jobs = [i \in DOMAIN @ \ gone |-> @[i]]]

\* poll_jobs
poll_jobs(q) ==
    IF q.job_control.n_running_jobs = 0 THEN q
    ELSE LET p == poll_from([q |-> q, job_ids_to_delete |-> <<>>,
                             jobs_to_restart |-> <<>>, elapsed |-> 0],
                            InOrder(DOMAIN q.jobs))
             slept == AfterSleep(p.q, p.elapsed)
         IN  IF p.q.raised THEN slept
             ELSE restart_from(delete_jobs(slept, p.job_ids_to_delete),
                               p.q.jobs, p.jobs_to_restart)

\* re.sub(r'\.raw$', '.mzML', full_path, flags=re.I)
RawToMzML(path) ==
    IF IsRawName(path[2]) /\ Fileroot(path[2]) # <<>>
    THEN <<path[1], MzMLName(Fileroot(path[2]))>>
    ELSE path

\* queue_tasks, the body of its loop for one task.
queue_task(q, task) ==
    IF task.command = "download_file"
    THEN add_job(q, DownloadJob(task.file_metadata,
                                q.files[task.file_metadata].full_path))
    ELSE IF task.command = "convert_to_mzML"
    THEN add_job(q, DownloadJob(task.file_metadata,
                                RawToMzML(q.files[task.file_metadata].full_path)))
    ELSE [q EXCEPT !.errors = ResponseError(@, "UnrecognizedTaskName")]

\* A loop over the tasks that an unrecognized task ends.
RECURSIVE queue_from_stopping(_, _)
queue_from_stopping(q, tasks) ==
    IF tasks = <<>> THEN q
    ELSE IF Head(tasks).command \notin {"download_file", "convert_to_mzML"}
    THEN queue_task(q, Head(tasks))
    ELSE queue_from_stopping(queue_task(q, Head(tasks)), Tail(tasks))

\* queue_tasks, "Loop over the requested tasks and add them to the scheduler"
RECURSIVE queue_from(_, _)
queue_from(q, tasks) ==
    IF tasks = <<>> THEN q
    ELSE queue_from(queue_task(q, Head(tasks)), Tail(tasks))

\* queue_tasks (self.dataset_processor.tasks_todo = [] is done by the action)
queue_tasks(q) == queue_from(q, tasks_todo)


(***************************************************************************)
(* The command file. A line is a sequence of characters ending in "\n".    *)
(***************************************************************************)
GET_U == <<"g", "e", "t", " ", "u", "\n">>
ADD_DATASET == <<"a", "d", "d", "_", "d", "a", "t", "a", "s", "e", "t">>
AddLine(dataset_id) == ADD_DATASET \o <<" ">> \o dataset_id \o <<"\n">>
CommandLines == {GET_U, AddLine(PXD1)}

\* line.rstrip(): the line without the white space at its end
RECURSIVE Rstrip(_)
Rstrip(line) ==
    IF Len(line) > 0 /\ line[Len(line)] \in {"\n", " "}
    THEN Rstrip(SubSeq(line, 1, Len(line) - 1))
    ELSE line

\* re.match(word + r'\s+(.+)$', command): group(1), or <<>> when there is no match
MatchCommand(word, command) ==
    LET n == Len(word)
        rest == SubSeq(command, n + 1, Len(command))
        first == IF \E i \in 1..Len(rest) : rest[i] # " "
                 THEN CHOOSE i \in 1..Len(rest) :
                          rest[i] # " " /\ \A j \in 1..(i - 1) : rest[j] = " "
                 ELSE 0
    IN  IF Len(command) > n /\ SubSeq(command, 1, n) = word /\ first > 1
        THEN SubSeq(rest, first, Len(rest))
        ELSE <<>>

\* A read_command that takes a line that ends at the pointer for a new one.
RECURSIVE read_from_inclusive(_, _)
read_from_inclusive(k, pointer) ==
    IF k > Len(cmd_file)
    THEN [found |-> FALSE, line |-> <<>>, pointer |-> command_pointer]
    ELSE LET here == pointer + Len(cmd_file[k])
         IN  IF here >= command_pointer
             THEN [found |-> TRUE, line |-> Rstrip(cmd_file[k]), pointer |-> here]
             ELSE read_from_inclusive(k + 1, here)

\* read_command: [found, line, pointer] for the lines of the file from line k
\* on, `pointer` being the bytes of the lines before it.
RECURSIVE read_from(_, _)
read_from(k, pointer) ==
    IF k > Len(cmd_file)
    THEN [found |-> FALSE, line |-> <<>>, pointer |-> command_pointer]
    ELSE LET here == pointer + Len(cmd_file[k])
         IN  IF here > command_pointer
             THEN [found |-> TRUE, line |-> Rstrip(cmd_file[k]), pointer |-> here]
             ELSE read_from(k + 1, here)

read_command == read_from(1, 0)

(***************************************************************************)
(* The agent: start(), then run(), whose loop calls main_task(); pc is the *)
(* next thing the agent does.                                              *)
(*   "start"   configure() and prepare_state()                             *)
(*   "read"    main_task: read_command and the command found               *)
(*   "process" main_task: dataset_processor.process()                      *)
(*   "queue"   main_task: queue_tasks()                                    *)
(*   "launch"  main_task: launch_jobs()                                    *)
(*   "poll"    main_task: poll_jobs()                                      *)
(*   "check"   run: the response status, the sleep and the STOP file       *)
(*   "stopped" after stop(); "failed" start() returned without running;    *)
(*   "raised"  an exception left main_task                                 *)
(***************************************************************************)
SetSched(q) ==
    /\ jobs' = q.jobs
    /\ job_control' = q.job_control
    /\ ids_used' = q.ids_used
    /\ kills' = q.kills
    /\ files' = q.files
    /\ disk' = q.disk
    /\ response' = q.errors

SetDP(s) ==
    /\ datasets' = s.datasets
    /\ dataset_ids' = s.dataset_ids
    /\ files' = s.files
    /\ tasks_todo' = s.tasks_todo
    /\ dp_response' = s.errors

\* read_command_pointer_file: the pointer of the file if there is one, else
\* update_command_pointer_file writes the pointer the agent has.
read_command_pointer_file ==
    IF pointer_file # NoKey
    THEN command_pointer' = pointer_file /\ UNCHANGED pointer_file
    ELSE pointer_file' = command_pointer /\ UNCHANGED command_pointer

\* A prepare_state that does not look for the PID file of another instance.
Start_unguarded ==
    /\ pc = "start"
    /\ stop_file' = FALSE
    /\ pid_file' = TRUE
    /\ pc' = "read"
    /\ read_command_pointer_file
    /\ UNCHANGED response
    /\ UNCHANGED <<remote, peers, disk, cmd_file, config, jobs, job_control, dp_vars,
                   history_vars>>

\* start: configure (the configuration is the one of the initial state) and
\* prepare_state, then run.
Start ==
    /\ pc = "start"
    /\ IF pid_file
       THEN /\ response' = ResponseError(response, "PIDFileAlreadyExists")
            /\ pc' = "failed"
            /\ UNCHANGED <<pid_file, stop_file, pointer_file, command_pointer>>
       ELSE /\ stop_file' = FALSE
            /\ pid_file' = TRUE
            /\ pc' = "read"
            /\ read_command_pointer_file
            /\ UNCHANGED response
    /\ UNCHANGED <<remote, peers, disk, cmd_file, config, jobs, job_control, dp_vars,
                   history_vars>>

\* main_task, "First look for new work to put in the queue"
ReadCommand(cap) ==
    /\ pc = "read"
    /\ pc' = "process"
    /\ LET command == read_command
           got == MatchCommand(<<"g", "e", "t">>, command.line)
           added == MatchCommand(ADD_DATASET, command.line)
       IN  /\ command_pointer' = command.pointer
           /\ pointer_file' = IF command.found THEN command.pointer ELSE pointer_file
           /\ IF command.found /\ got # <<>>
              THEN /\ job_control.job_index <= cap
                   /\ SetSched(add_job(SchedState, GetJob))
                   /\ UNCHANGED <<datasets, dataset_ids, tasks_todo, dp_response>>
              ELSE IF command.found /\ added # <<>>
              THEN /\ SetDP(add_dataset(DPState, added))
                   /\ UNCHANGED <<jobs, job_control, history_vars, disk, response>>
              ELSE UNCHANGED <<jobs, job_control, history_vars, disk, response, dp_vars>>
    /\ UNCHANGED <<remote, peers, cmd_file, stop_file, pid_file, config>>

\* main_task, "Run the DatasetProcessor for a cycle"
Process ==
    /\ pc = "process"
    /\ LET s == process(DPState)
       IN  /\ SetDP(s)
           /\ IF ResponseStatus(s.errors) # "OK"
              THEN /\ response' = ResponseMerge(response, s.errors)
                   /\ pc' = "check"
              ELSE /\ pc' = "queue"
                   /\ UNCHANGED response
    /\ UNCHANGED <<env_vars, config, command_pointer, jobs, job_control, history_vars>>

\* A queue_tasks that leaves out `self.dataset_processor.tasks_todo = []`.
QueueTasks_keeping(cap) ==
    /\ pc = "queue"
    /\ pc' = "launch"
    /\ LET q == IF Len(tasks_todo) > 0 THEN queue_tasks(SchedState) ELSE SchedState
       IN  /\ q.job_control.job_index <= cap + 1
           /\ SetSched(q)
    /\ UNCHANGED <<remote, peers, cmd_file, pointer_file, stop_file, pid_file, config, command_pointer,
                   dataset_ids, datasets, dp_response, tasks_todo>>

\* main_task, "If there are tasks to perform from the DatasetProcessor, queue
\* them"
QueueTasks(cap) ==
    /\ pc = "queue"
    /\ pc' = "launch"
    /\ LET q == IF Len(tasks_todo) > 0 THEN queue_tasks(SchedState) ELSE SchedState
       IN  /\ q.job_control.job_index <= cap + 1
           /\ SetSched(q)
    /\ tasks_todo' = <<>>
    /\ UNCHANGED <<remote, peers, cmd_file, pointer_file, stop_file, pid_file, config, command_pointer,
                   dataset_ids, datasets, dp_response>>

\* main_task, "Then see if there is something to launch"
LaunchJobs ==
    /\ pc = "launch"
    /\ pc' = "poll"
    /\ SetSched(launch_jobs(SchedState))
    /\ UNCHANGED <<remote, peers, cmd_file, pointer_file, stop_file, pid_file, config, command_pointer,
                   dataset_ids, datasets, tasks_todo, dp_response>>

\* main_task, "Then see if there is something to launch", when the launch of
\* job_id raises: the exception leaves launch_jobs, main_task and run.
LaunchJobsRaises(job_id) ==
    /\ pc = "launch"
    /\ job_control.n_jobs # 0
    /\ job_control.n_running_jobs < config.max_running_jobs
    /\ LET q == launch_until(SchedState, jobs_list(SchedState), job_id)
       IN  /\ q.raised
           /\ SetSched(q)
    /\ pc' = "raised"
    /\ UNCHANGED <<remote, peers, cmd_file, pointer_file, stop_file, pid_file, config,
                   command_pointer, dataset_ids, datasets, tasks_todo, dp_response>>

\* A main_task that looks for something to launch again after poll_jobs.
PollJobs_then_launch(cap) ==
    /\ pc = "poll"
    /\ LET p == poll_jobs(SchedState)
           q == IF p.raised THEN p ELSE launch_jobs(p)
       IN  /\ q.job_control.job_index <= cap + 1
           /\ SetSched(q)
           /\ pc' = IF q.raised THEN "raised" ELSE "check"
    /\ UNCHANGED <<remote, peers, cmd_file, pointer_file, stop_file, pid_file, config, command_pointer,
                   dataset_ids, datasets, tasks_todo, dp_response>>

\* main_task, "Check in on running jobs"
PollJobs(cap) ==
    /\ pc = "poll"
    /\ LET q == poll_jobs(SchedState)
       IN  /\ q.job_control.job_index <= cap + 1
           /\ SetSched(q)
           /\ pc' = IF q.raised THEN "raised" ELSE "check"
    /\ UNCHANGED <<remote, peers, cmd_file, pointer_file, stop_file, pid_file, config, command_pointer,
                   dataset_ids, datasets, tasks_todo, dp_response>>

\* A run that leaves its loop at the STOP file only when no job is running.
Check_draining ==
    /\ pc = "check"
    /\ IF ResponseStatus(response) # "OK"
          \/ (stop_file /\ job_control.n_running_jobs = 0)
       THEN /\ pc' = "stopped"
            /\ pid_file' = FALSE
            /\ stop_file' = FALSE
       ELSE /\ pc' = "read"
            /\ UNCHANGED <<pid_file, stop_file>>
    /\ UNCHANGED <<remote, peers, disk, cmd_file, pointer_file, config, command_pointer, jobs,
                   job_control, response, dp_vars, history_vars>>

\* run: after main_task, return if the response is not OK; sleep; break if the
\* STOP file is there. Either way start() goes on to stop(), which removes the
\* PID and the STOP file.
Check ==
    /\ pc = "check"
    /\ IF ResponseStatus(response) # "OK" \/ stop_file
       THEN /\ pc' = "stopped"
            /\ pid_file' = FALSE
            /\ stop_file' = FALSE
       ELSE /\ pc' = "read"
            /\ UNCHANGED <<pid_file, stop_file>>
    /\ UNCHANGED <<remote, peers, disk, cmd_file, pointer_file, config, command_pointer, jobs,
                   job_control, response, dp_vars, history_vars>>

Running == pc \in {"read", "process", "queue", "launch", "poll", "check"}

\* __del__ of the agent once start() has returned: "Remove our PID file",
\* "Remove our STOP file", whichever agent wrote them.
Del ==
    /\ pc \in {"failed", "stopped"}
    /\ pc' = "deleted"
    /\ pid_file' = FALSE
    /\ stop_file' = FALSE
    /\ UNCHANGED <<remote, peers, disk, cmd_file, pointer_file, config, command_pointer,
                   jobs, job_control, response, dp_vars, history_vars>>

\* Another agent object made in the same directory. Of its life only what it
\* does to the PID and STOP markers is followed: "start" (start() not yet
\* called), "failed" (prepare_state found the PID file), "running" (in the
\* loop of run()), "stopped" (stop() has run), "deleted" (__del__ has run).
\* start() of agent a: prepare_state.
PeerStart(a) ==
    /\ peers[a] = "start"
    /\ IF pid_file
       THEN /\ peers' = [peers EXCEPT ![a] = "failed"]
            /\ UNCHANGED <<pid_file, stop_file>>
       ELSE /\ stop_file' = FALSE
            /\ pid_file' = TRUE
            /\ peers' = [peers EXCEPT ![a] = "running"]
    /\ UNCHANGED <<remote, disk, cmd_file, pointer_file, agent_vars, dp_vars,
                   history_vars>>

\* run() of agent a finds the STOP file and start() goes on to stop().
PeerStop(a) ==
    /\ peers[a] = "running"
    /\ stop_file
    /\ peers' = [peers EXCEPT ![a] = "stopped"]
    /\ pid_file' = FALSE
    /\ stop_file' = FALSE
    /\ UNCHANGED <<remote, disk, cmd_file, pointer_file, agent_vars, dp_vars,
                   history_vars>>

\* __del__ of agent a once its start() has returned.
PeerDel(a) ==
    /\ peers[a] \in {"failed", "stopped"}
    /\ peers' = [peers EXCEPT ![a] = "deleted"]
    /\ pid_file' = FALSE
    /\ stop_file' = FALSE
    /\ UNCHANGED <<remote, disk, cmd_file, pointer_file, agent_vars, dp_vars,
                   history_vars>>

\* The agent looks at the command file in ReadCommand only and at the STOP file
\* in Check only, at the files on disk in Process and in PollJobs, and at the
\* subprocesses in PollJobs. A step of the environment taken anywhere in the
\* cycle is seen by the agent exactly as the same step taken at the last of
\* these places before the agent looks: while the agent sleeps ("check"), or
\* between launch_jobs and poll_jobs ("poll").
Asleep == pc = "check"
Unobserved == pc \in {"poll", "check"}

(***************************************************************************)
(* The environment                                                         *)
(***************************************************************************)
\* Time passes.
Tick ==
    /\ Unobserved
    /\ disk' = [f \in DOMAIN disk |-> Older(disk[f], TickSeconds)]
    /\ jobs' = [i \in DOMAIN jobs |->
                   IF jobs[i].status = "run" /\ jobs[i].handle = "alive"
                   THEN [jobs[i] EXCEPT !.age = Older(@, TickSeconds)]
                   ELSE jobs[i]]
    /\ <<disk', jobs'>> # <<disk, jobs>>
    /\ UNCHANGED <<remote, peers, cmd_file, pointer_file, stop_file, pid_file, pc, config,
                   command_pointer, job_control, response, dp_vars, history_vars>>

\* The subprocess of a running download writes to its output file.
ProcWrite(job_id) ==
    /\ Unobserved
    /\ jobs[job_id].status = "run"
    /\ jobs[job_id].handle = "alive"
    /\ jobs[job_id].expected_output_file # NoPath
    /\ disk' = (jobs[job_id].expected_output_file :> 0) @@ disk
    /\ disk' # disk
    /\ UNCHANGED <<remote, peers, cmd_file, pointer_file, stop_file, pid_file, agent_vars, dp_vars,
                   history_vars>>

\* The subprocess of a running job exits.
ProcExit(job_id) ==
    /\ Unobserved
    /\ jobs[job_id].status = "run"
    /\ jobs[job_id].handle = "alive"
    /\ jobs' = [jobs EXCEPT ![job_id].handle = "exited"]
    /\ UNCHANGED <<env_vars, pc, config, command_pointer, job_control, response,
                   dp_vars, history_vars>>

\* The subprocess of a running job exits with a return code other than 0,
\* leaving what it has written of its output file.
ProcFail(job_id) ==
    /\ Unobserved
    /\ jobs[job_id].status = "run"
    /\ jobs[job_id].handle = "alive"
    /\ jobs' = [jobs EXCEPT ![job_id].handle = "failed"]
    /\ UNCHANGED <<env_vars, pc, config, command_pointer, job_control, response,
                   dp_vars, history_vars>>

\* The operator appends a line to agent_commands.txt.
AppendCommand(line) ==
    /\ Asleep
    /\ Len(cmd_file) < MaxCommands
    /\ cmd_file' = Append(cmd_file, line)
    /\ UNCHANGED <<remote, peers, disk, stop_file, pid_file, pointer_file, agent_vars, dp_vars,
                   history_vars>>

\* The last line of agent_commands.txt has its "\n".
LastLineComplete ==
    cmd_file = <<>> \/ cmd_file[Len(cmd_file)][Len(cmd_file[Len(cmd_file)])] = "\n"

\* Where the operator's write of a line may end: after its first word, within
\* or after its argument, and after its "\n".
ChunkEnds(line) == {3, Len(line) - 3, Len(line) - 1, Len(line)}

\* The operator's write reaches the file in pieces: the next piece of `line`,
\* up to its character n, arrives at the end of agent_commands.txt.
WriteChunk(line, n) ==
    /\ Asleep
    /\ n \in ChunkEnds(line)
    /\ IF LastLineComplete
       THEN /\ Len(cmd_file) < MaxCommands
            /\ cmd_file' = Append(cmd_file, SubSeq(line, 1, n))
       ELSE LET written == cmd_file[Len(cmd_file)]
            IN  /\ Len(written) < n
                /\ written = SubSeq(line, 1, Len(written))
                /\ cmd_file' = [cmd_file EXCEPT ![Len(cmd_file)] = SubSeq(line, 1, n)]
    /\ UNCHANGED <<remote, peers, disk, stop_file, pid_file, pointer_file, agent_vars, dp_vars,
                   history_vars>>

\* The operator creates the STOP file.
CreateStop ==
    /\ Asleep
    /\ ~stop_file
    /\ stop_file' = TRUE
    /\ UNCHANGED <<remote, peers, disk, cmd_file, pointer_file, pid_file, agent_vars, dp_vars, history_vars>>

\* The operator creates the STOP file while main_task is at work.
CreateStopDuring(place) ==
    /\ pc = place
    /\ ~stop_file
    /\ stop_file' = TRUE
    /\ UNCHANGED <<remote, peers, disk, cmd_file, pointer_file, pid_file, agent_vars, dp_vars, history_vars>>

(***************************************************************************)
(* Spec: the agent in its poll loop                                        *)
(***************************************************************************)
Caps == {1, 2}
Configs == {[max_running_jobs |-> g, max_running_jobs_by_type |-> [download |-> t]] :
               g \in Caps, t \in Caps}

\* A file that was there before the agent started is old.
OldFiles(paths) == [f \in paths |-> MaxAge]

InitAgent ==
    /\ stop_file = FALSE
    /\ pc = "start"
    /\ command_pointer = 0
    /\ jobs = <<>>
    /\ job_control = [job_index |-> 1, n_running_jobs |-> 0, n_jobs |-> 0,
                      n_running_jobs_by_type |-> <<>>]
    /\ response = {}
    /\ dataset_ids = <<>>
    /\ datasets = <<>>
    /\ files = <<>>
    /\ tasks_todo = <<>>
    /\ dp_response = {}
    /\ ids_used = <<>>
    /\ kills = <<>>

\* Every dataset has a record with one raw file.
Remotes == {[d \in DatasetIds |-> PX_ONE]}

Init ==
    /\ InitAgent
    /\ pointer_file = NoKey
    /\ cmd_file = <<>>
    /\ peers = NoPeers
    /\ remote \in Remotes
    /\ disk \in {OldFiles({}), OldFiles({<<PXD1, A_RAW>>})}
    /\ pid_file \in BOOLEAN
    /\ config \in Configs

\* The steps of the agent, with job_index capped at `cap`.
AgentStep(cap) ==
    \/ Start
    \/ ReadCommand(cap)
    \/ Process
    \/ QueueTasks(cap)
    \/ LaunchJobs
    \/ PollJobs(cap)
    \/ Check

\* The steps of the subprocesses and of the clock.
WorldStep ==
    \/ Tick
    \/ \E job_id \in DOMAIN jobs : ProcWrite(job_id)
    \/ \E job_id \in DOMAIN jobs : ProcExit(job_id)

Next ==
    \/ AgentStep(MaxJobIndex)
    \/ WorldStep
    \/ \E line \in CommandLines : AppendCommand(line)

Spec == Init /\ [][Next]_vars

(***************************************************************************)
(* SpecRetry: the agent with one dataset whose record names no raw file,   *)
(* so that its only download is the one of the manifest, followed through  *)
(* all its retries, alone or next to the job of a get command.             *)
(***************************************************************************)
\* What the operator has written to the command file before the agent starts.
RetryCommands == {<<AddLine(PXD1)>>, <<AddLine(PXD1), GET_U>>, <<GET_U, AddLine(PXD1)>>}

InitRetry ==
    /\ InitAgent
    /\ pointer_file = NoKey
    /\ cmd_file \in RetryCommands
    /\ peers = NoPeers
    /\ remote = [d \in DatasetIds |-> PX_NONE]
    /\ disk = OldFiles({})
    /\ pid_file = FALSE
    /\ config \in Configs

NextRetry ==
    \/ AgentStep(MaxJobIndexRetry)
    \/ WorldStep

SpecRetry == InitRetry /\ [][NextRetry]_vars

(***************************************************************************)
(* SpecDP: the DatasetProcessor driven by its caller's add_dataset and     *)
(* process calls alone, as its own main() drives it, whatever the record   *)
(* of the dataset is. Nobody downloads anything.                           *)
(***************************************************************************)
\* add_dataset(dataset_id), called on the DatasetProcessor.
DPAddDataset(dataset_id) ==
    /\ SetDP(add_dataset(DPState, dataset_id))
    /\ UNCHANGED <<env_vars, agent_vars, history_vars>>

\* process(), called on the DatasetProcessor.
DPProcess ==
    /\ datasets # <<>>
    /\ LET s == process(DPState)
       IN  /\ Len(s.files) <= MaxFiles
           /\ SetDP(s)
    /\ UNCHANGED <<env_vars, agent_vars, history_vars>>

PXRecords ==
    {PX_ONE, PX_TWO, PX_NONE, PX_NOFTP, PX_LISTED, PX_EMPTYDIR, PX_HTTP, PX_GARBLED}

InitDP ==
    /\ InitAgent
    /\ pointer_file = NoKey
    /\ cmd_file = <<>>
    /\ pid_file = FALSE
    /\ config = [max_running_jobs |-> 2, max_running_jobs_by_type |-> [download |-> 2]]
    /\ peers = NoPeers
    /\ remote \in {[d \in DatasetIds |-> IF d = PXD1 THEN r ELSE PX_ONE] : r \in PXRecords}
    /\ disk \in {OldFiles({}), OldFiles({<<PXD1, A_RAW>>}),
                 OldFiles({<<PXD1, A_RAW>>, <<PXD1, README>>})}

NextDP ==
    \/ \E dataset_id \in DatasetIds : DPAddDataset(dataset_id)
    \/ DPProcess

SpecDP == InitDP /\ [][NextDP]_vars

(***************************************************************************)
(* SpecListing: the DatasetProcessor with one dataset, added once, whose   *)
(* raw files are named by the record or found by the FTP directory         *)
(* listing, and any number of process() passes while files land on disk.   *)
(***************************************************************************)
\* add_dataset for an id that is not tracked yet.
DPAddNew(dataset_id) ==
    /\ dataset_id \notin DOMAIN datasets
    /\ DPAddDataset(dataset_id)

\* Somebody puts a file of the dataset on disk.
FileLands(path) ==
    /\ path \notin DOMAIN disk
    /\ disk' = (path :> 0) @@ disk
    /\ UNCHANGED <<remote, peers, cmd_file, pointer_file, stop_file, pid_file, agent_vars, dp_vars,
                   history_vars>>

ListedFiles == {A_RAW, B_RAW, C_RAW, README}

InitListing ==
    /\ InitAgent
    /\ pointer_file = NoKey
    /\ cmd_file = <<>>
    /\ pid_file = FALSE
    /\ config = [max_running_jobs |-> 2, max_running_jobs_by_type |-> [download |-> 2]]
    /\ peers = NoPeers
    /\ remote \in {[d \in DatasetIds |-> r] : r \in {PX_THREE, PX_LISTED3, PX_REPEATED}}
    /\ disk = OldFiles({})

NextListing ==
    \/ DPAddNew(PXD1)
    \/ DPProcess
    \/ \E name \in ListedFiles : FileLands(<<PXD1, name>>)

SpecListing == InitListing /\ [][NextListing]_vars

(***************************************************************************)
(* SpecCaps: the agent with one dataset whose record names two raw files,  *)
(* so that three download jobs (the manifest and the two raw files) are    *)
(* queued in one cycle, under every configuration of the caps.             *)
(***************************************************************************)
InitCaps ==
    /\ InitAgent
    /\ pointer_file = NoKey
    /\ cmd_file = <<AddLine(PXD1)>>
    /\ peers = NoPeers
    /\ remote = [d \in DatasetIds |-> PX_TWO]
    /\ disk = OldFiles({})
    /\ pid_file = FALSE
    /\ config \in Configs

NextCaps ==
    \/ AgentStep(MaxJobIndexCaps)
    \/ WorldStep

SpecCaps == InitCaps /\ [][NextCaps]_vars

\* The agent about to queue a task list some of whose tasks may carry a command
\* queue_tasks does not know. The list is the one process() makes for a dataset
\* with a manifest and two raw files to fetch, with the commands drawn.
TaskCommands == {"download_file", "convert_to_mzML", "compress_file"}

Worked ==
    process(process(add_dataset([datasets |-> <<>>, dataset_ids |-> <<>>,
                                 files |-> <<>>, tasks_todo |-> <<>>,
                                 errors |-> {}], PXD1)))

InitTasks ==
    /\ stop_file = FALSE
    /\ pid_file = TRUE
    /\ pointer_file = Len(AddLine(PXD1))
    /\ command_pointer = Len(AddLine(PXD1))
    /\ cmd_file = <<AddLine(PXD1)>>
    /\ peers = NoPeers
    /\ remote = [d \in DatasetIds |-> PX_TWO]
    /\ disk = OldFiles({})
    /\ config \in Configs
    /\ jobs = <<>>
    /\ job_control = [job_index |-> 1, n_running_jobs |-> 0, n_jobs |-> 0,
                      n_running_jobs_by_type |-> <<>>]
    /\ response = {}
    /\ dataset_ids = Worked.dataset_ids
    /\ datasets = Worked.datasets
    /\ files = Worked.files
    /\ dp_response = Worked.errors
    /\ tasks_todo \in {[k \in DOMAIN Worked.tasks_todo |->
                           [Worked.tasks_todo[k] EXCEPT !.command = commands[k]]] :
                       commands \in [DOMAIN Worked.tasks_todo -> TaskCommands]}
    /\ ids_used = <<>>
    /\ kills = <<>>
    /\ pc = "queue"

NextTasks ==
    \/ QueueTasks(MaxJobIndex)
    \/ LaunchJobs
    \/ PollJobs(MaxJobIndex)
    \/ Check

SpecTasks == InitTasks /\ [][NextTasks]_vars

(***************************************************************************)
(* SpecExhaust: the agent with one dataset whose manifest is on disk and   *)
(* whose record names one raw file, so that its only job is the download   *)
(* of the raw file, followed through all its retries.                      *)
(***************************************************************************)
InitExhaust ==
    /\ InitAgent
    /\ pointer_file = NoKey
    /\ cmd_file = <<AddLine(PXD1)>>
    /\ peers = NoPeers
    /\ remote = [d \in DatasetIds |-> PX_ONE]
    /\ disk = OldFiles({<<PXD1, README>>})
    /\ pid_file = FALSE
    /\ config \in Configs

NextExhaust ==
    \/ AgentStep(MaxJobIndexRetry)
    \/ WorldStep

SpecExhaust == InitExhaust /\ [][NextExhaust]_vars

(***************************************************************************)
(* SpecAbsent: the same agent and dataset with a source that never delivers *)
(* the raw file: every subprocess exits and leaves no output file.         *)
(***************************************************************************)
NextAbsent ==
    \/ AgentStep(MaxJobIndexRetry)
    \/ \E job_id \in DOMAIN jobs : ProcExit(job_id)

SpecAbsent == InitExhaust /\ [][NextAbsent]_vars

(***************************************************************************)
(* SpecTwo: the agent with two datasets, PXD1 whose record names one raw   *)
(* file and another one, added at any later time, that fails in setup:     *)
(* its identifier is refused, or its record cannot be fetched or parsed,   *)
(* or lacks the FTP location.                                              *)
(***************************************************************************)
FailingRecords == {PX_HTTP, PX_GARBLED, PX_NOFTP}
FailingIds == {PXD2, BAD_ID}

InitTwo ==
    /\ InitAgent
    /\ pointer_file = NoKey
    /\ cmd_file = <<AddLine(PXD1)>>
    /\ peers = NoPeers
    /\ remote \in {[d \in DatasetIds |-> IF d = PXD2 THEN r ELSE PX_ONE] :
                      r \in FailingRecords}
    /\ disk = OldFiles({})
    /\ pid_file = FALSE
    /\ config \in Configs

NextTwo ==
    \/ AgentStep(MaxJobIndex)
    \/ WorldStep
    \/ \E bad \in FailingIds : AppendCommand(AddLine(bad))

SpecTwo == InitTwo /\ [][NextTwo]_vars

(***************************************************************************)
(* SpecCommands: the agent and an operator whose writes to the command     *)
(* file arrive in pieces, after an earlier run of the agent or none. The   *)
(* subprocesses run or exit; the time they take plays no part.             *)
(***************************************************************************)
\* The command file and the pointer file an earlier run has left.
EarlierRuns ==
    {[cmd_file |-> <<>>, pointer_file |-> NoKey],
     [cmd_file |-> <<GET_U>>, pointer_file |-> NoKey],
     [cmd_file |-> <<GET_U>>, pointer_file |-> Len(GET_U)]}

\* The beginnings of an identifier, which ProteomeXchange does not know.
PartialIds == {SubSeq(PXD1, 1, k) : k \in 1..(Len(PXD1) - 1)}

InitCommands ==
    /\ InitAgent
    /\ \E left \in EarlierRuns :
           cmd_file = left.cmd_file /\ pointer_file = left.pointer_file
    /\ peers = NoPeers
    /\ remote = [d \in DatasetIds \cup PartialIds |->
                    IF d \in PartialIds THEN PX_HTTP ELSE PX_ONE]
    /\ disk = OldFiles({})
    /\ pid_file = FALSE
    /\ config = [max_running_jobs |-> 2, max_running_jobs_by_type |-> [download |-> 2]]

NextCommands ==
    \/ AgentStep(MaxJobIndex)
    \/ \E job_id \in DOMAIN jobs : ProcExit(job_id)
    \/ \E line \in CommandLines : \E n \in 1..Len(line) : WriteChunk(line, n)

SpecCommands == InitCommands /\ [][NextCommands]_vars

(***************************************************************************)
(* SpecLaunch: the agent with one dataset (manifest and one raw file to    *)
(* download) on a machine where the launch of a subprocess may fail.       *)
(***************************************************************************)
InitLaunch ==
    /\ InitAgent
    /\ pointer_file = NoKey
    /\ cmd_file = <<AddLine(PXD1)>>
    /\ peers = NoPeers
    /\ remote \in Remotes
    /\ disk = OldFiles({})
    /\ pid_file = FALSE
    /\ config \in Configs

NextLaunch ==
    \/ AgentStep(MaxJobIndex)
    \/ WorldStep
    \/ \E job_id \in DOMAIN jobs : LaunchJobsRaises(job_id)

SpecLaunch == InitLaunch /\ [][NextLaunch]_vars

(***************************************************************************)
(* SpecPriority: launch_jobs applied to any registry add_job, launch_jobs  *)
(* and poll_jobs can have built for a caller whose jobs are of two types,  *)
(* under every configuration of the three caps.                            *)
(***************************************************************************)
TwoTypes == {"download", "convert"}

\* A job of the registry: one that waits, one that was requeued after a kill,
\* or one that has been running for a while.
AnyJob(type, status) ==
    [DownloadJob(NoFile, NoPath) EXCEPT
        !.type = type, !.status = status,
        !.handle = IF status = "run" THEN "alive" ELSE "None",
        !.age = IF status = "run" THEN TickSeconds ELSE 0,
        !.n_retries = IF status = "redo" THEN 1 ELSE 0]

Registries ==
    UNION {[1..n -> {AnyJob(type, status) : type \in TwoTypes,
                                             status \in {"qw", "redo", "run"}}] :
              n \in 1..MaxQueued}

InitPriority ==
    /\ stop_file = FALSE
    /\ command_pointer = 0
    /\ response = {}
    /\ dataset_ids = <<>>
    /\ datasets = <<>>
    /\ files = <<>>
    /\ tasks_todo = <<>>
    /\ dp_response = {}
    /\ kills = <<>>
    /\ pointer_file = 0
    /\ cmd_file = <<>>
    /\ peers = NoPeers
    /\ remote \in Remotes
    /\ disk = OldFiles({})
    /\ pid_file = TRUE
    /\ config \in {[max_running_jobs |-> g,
                     max_running_jobs_by_type |-> [download |-> d, convert |-> c]] :
                        g \in Caps, d \in Caps, c \in Caps}
    /\ \E registry \in Registries :
           /\ jobs = [i \in DOMAIN registry |-> [registry[i] EXCEPT !.oid = i]]
           /\ job_control =
                  [job_index |-> Len(registry) + 1,
                   n_jobs |-> Len(registry),
                   n_running_jobs |->
                       Cardinality({i \in DOMAIN registry : registry[i].status = "run"}),
                   n_running_jobs_by_type |->
                       [type \in TwoTypes |->
                           Cardinality({i \in DOMAIN registry :
                                           /\ registry[i].status = "run"
                                           /\ registry[i].type = type})]]
           /\ ids_used = [i \in DOMAIN registry |-> i]
    /\ pc = "launch"

SpecPriority == InitPriority /\ [][LaunchJobs]_vars

(***************************************************************************)
(* FairSpec: the agent told to add one dataset whose record names one raw  *)
(* file, with downloads that succeed: a subprocess exits only when its     *)
(* output file is written, and no time passes, so no job is killed or      *)
(* requeued. run() takes main_task after main_task for as long as the      *)
(* response is OK and there is no STOP file: the agent's steps are fair.   *)
(***************************************************************************)
\* The subprocess of a running download exits with its output file in place.
ProcDone(job_id) ==
    /\ jobs[job_id].expected_output_file \in DOMAIN disk
    /\ ProcExit(job_id)

InitFair ==
    /\ InitAgent
    /\ pointer_file = NoKey
    /\ cmd_file = <<AddLine(PXD1)>>
    /\ peers = NoPeers
    /\ remote \in Remotes
    /\ disk \in {OldFiles({}), OldFiles({<<PXD1, A_RAW>>}), OldFiles({<<PXD1, README>>})}
    /\ pid_file = FALSE
    /\ config \in Configs

\* The steps of the subprocesses: each download goes on to its end.
Downloads ==
    \/ \E job_id \in DOMAIN jobs : ProcWrite(job_id)
    \/ \E job_id \in DOMAIN jobs : ProcDone(job_id)

NextFair ==
    \/ AgentStep(MaxJobIndex)
    \/ Downloads

FairSpec ==
    /\ InitFair
    /\ [][NextFair]_vars
    /\ WF_vars(AgentStep(MaxJobIndex))
    /\ WF_vars(Downloads)

\* The agent, its downloads and the clock: a subprocess may be slow enough to
\* be killed as stalled, but every subprocess that is left alone writes its
\* file and exits with the file in place.
Writes == \E job_id \in DOMAIN jobs : ProcWrite(job_id)
Exits == \E job_id \in DOMAIN jobs : ProcDone(job_id)

NextLive ==
    \/ AgentStep(MaxJobIndex)
    \/ Writes
    \/ Exits
    \/ Tick

SpecLive ==
    /\ InitFair
    /\ [][NextLive]_vars
    /\ SF_vars(Writes)
    /\ SF_vars(Exits)

\* The agent with subprocesses that all fail: each exits with a return code
\* other than 0, having written a part of its output file or nothing.
Fails == \E job_id \in DOMAIN jobs : ProcFail(job_id)

NextCodes ==
    \/ AgentStep(MaxJobIndex)
    \/ Writes
    \/ Fails

SpecCodes == InitFair /\ [][NextCodes]_vars

\* The agent and its downloads with an operator who creates the STOP file at
\* any moment of the run loop.
MainTaskPlaces == {"read", "process", "queue", "launch", "poll"}

NextStop ==
    \/ AgentStep(MaxJobIndex)
    \/ Downloads
    \/ CreateStop
    \/ \E place \in MainTaskPlaces : CreateStopDuring(place)

SpecStop ==
    /\ InitFair
    /\ [][NextStop]_vars
    /\ WF_vars(AgentStep(MaxJobIndex))

\* An agent started in a directory where another instance may have left, or
\* still hold, its PID file, and an operator a STOP file.
InitStart ==
    /\ stop_file \in BOOLEAN
    /\ pid_file \in BOOLEAN
    /\ pc = "start"
    /\ command_pointer = 0
    /\ jobs = <<>>
    /\ job_control = [job_index |-> 1, n_running_jobs |-> 0, n_jobs |-> 0,
                      n_running_jobs_by_type |-> <<>>]
    /\ response = {}
    /\ dataset_ids = <<>>
    /\ datasets = <<>>
    /\ files = <<>>
    /\ tasks_todo = <<>>
    /\ dp_response = {}
    /\ ids_used = <<>>
    /\ kills = <<>>
    /\ pointer_file = NoKey
    /\ cmd_file = <<AddLine(PXD1)>>
    /\ peers = NoPeers
    /\ remote \in Remotes
    /\ disk \in {OldFiles({}), OldFiles({<<PXD1, A_RAW>>})}
    /\ config \in Configs

SpecStart == InitStart /\ [][NextStop]_vars

\* Several agent objects started, stopped and torn down in one directory, in
\* any order.
NextPeers ==
    \/ AgentStep(MaxJobIndex)
    \/ CreateStop
    \/ Del
    \/ \E a \in PeerIds : PeerStart(a)
    \/ \E a \in PeerIds : PeerStop(a)
    \/ \E a \in PeerIds : PeerDel(a)

SpecPeers == InitStart /\ [][NextPeers]_vars

(***************************************************************************)
(* The scheduler's caps and counters                                       *)
(***************************************************************************)
Range(f) == {f[x] : x \in DOMAIN f}

Waiting(job) == job.status \in {"qw", "redo"}

\* C1: when launch_jobs has returned, the number of running jobs
\* (n_running_jobs) is at most the global cap max_running_jobs, whatever the
\* per-type caps and however many jobs were queued.
C1_GlobalCap ==
    pc = "poll" => job_control.n_running_jobs <= config.max_running_jobs

\* C2: for every job type t, n_running_jobs_by_type[t] is at most
\* max_running_jobs_by_type[t], in every state the add_job, launch_jobs and
\* poll_jobs calls of the agent lead to.
C2_TypeCap ==
    \A t \in DOMAIN job_control.n_running_jobs_by_type :
        job_control.n_running_jobs_by_type[t] <= config.max_running_jobs_by_type[t]

\* launch_jobs went through its loop and left a job waiting because the
\* running jobs of its type are as many as the cap of the type.
C2_HeldBack ==
    /\ pc = "poll"
    /\ job_control.n_running_jobs < config.max_running_jobs
    /\ \E i \in DOMAIN jobs :
           /\ Waiting(jobs[i])
           /\ jobs[i].type \in DOMAIN job_control.n_running_jobs_by_type
           /\ job_control.n_running_jobs_by_type[jobs[i].type]
                  = config.max_running_jobs_by_type[jobs[i].type]

\* C3: every add_job call (for a task, for a `get` command, for a requeue in
\* poll_jobs) uses an id greater than every id used before it, so no id is
\* used twice and an id removed from the registry never comes back; the ids
\* of the registry are ids add_job has used and the next id is greater than
\* all of them.
C3_IdsIncrease ==
    /\ \A i, j \in DOMAIN ids_used : i < j => ids_used[i] < ids_used[j]
    /\ DOMAIN jobs \subseteq Range(ids_used)
    /\ \A i \in DOMAIN ids_used : ids_used[i] < job_control.job_index

\* poll_jobs has requeued a job: the job is in the registry under a new id and
\* the id it was first added under is in the registry no more.
C3_Requeued ==
    \E i \in DOMAIN jobs :
        /\ jobs[i].oid < i
        /\ jobs[i].oid \in Range(ids_used)
        /\ jobs[i].oid \notin DOMAIN jobs

\* C4: between the calls of add_job, launch_jobs and poll_jobs the counter
\* n_jobs is the number of entries of the job registry. (A poll_jobs that
\* raises does not complete.)
C4_NJobs ==
    pc # "raised" => job_control.n_jobs = Cardinality(DOMAIN jobs)

\* The counter agrees with the registry after a job has used up its retries
\* while another job is still registered.
C4_Exhausted ==
    /\ pc = "check"
    /\ "MaxRetriesReached" \in response
    /\ jobs # <<>>
    /\ job_control.n_jobs = Cardinality(DOMAIN jobs)

(***************************************************************************)
(* Staleness and retries                                                   *)
(***************************************************************************)
\* The job is running and its subprocess has not exited.
StillRunning(job) == job.status = "run" /\ job.handle = "alive"

\* A step of poll_jobs.
PollStep == pc = "poll" /\ pc' \in {"check", "raised"}

\* The step has terminated the subprocess of job i.
Terminated(i) == ~(i \in DOMAIN jobs' /\ jobs'[i].handle = "alive")

\* The scan of poll_jobs gets as far as job i: no job before it makes the scan
\* raise (an exited job without a file_handle).
Reached(i) ==
    \A k \in DOMAIN jobs :
        k < i => ~(jobs[k].status = "run" /\ jobs[k].handle = "exited"
                      /\ jobs[k].file_handle = NoFile)

\* The seconds poll_jobs has slept, after its kills, before it looks at job i.
SleptBefore(i) ==
    KillSleep * Cardinality({k \in DOMAIN jobs :
                                k < i /\ StillRunning(jobs[k]) /\ Terminated(k)})

\* The output file of job i is there, and both its age and the time since the
\* launch of the job are beyond the window of the job when poll_jobs looks.
BothBeyondWindow(i) ==
    LET job == jobs[i]
    IN  /\ job.retry_staleness # NoKey
        /\ job.expected_output_file \in DOMAIN disk
        /\ Min(disk[job.expected_output_file] + SleptBefore(i), MaxAge)
               > job.retry_staleness
        /\ Min(job.age + SleptBefore(i), MaxAge) > job.retry_staleness

\* C5: poll_jobs kills a still-running job it looks at if and only if its
\* expected output file exists and both the age of the file and the time since
\* the launch exceed retry_staleness; a job whose file is missing or was
\* written within the window is never killed, and neither is a job the scan
\* does not get to.
C5_KilledIffStale ==
    [][PollStep =>
          \A i \in DOMAIN jobs :
              StillRunning(jobs[i]) =>
                  (Terminated(i) <=> (Reached(i) /\ BothBeyondWindow(i)))]_vars

\* poll_jobs has killed a stalled job and put it back as 'redo' while another
\* job, as long in the running but with a fresh or a missing output file, runs
\* on.
C5_KilledOne ==
    /\ pc = "check"
    /\ \E i \in DOMAIN jobs : jobs[i].status = "redo" /\ Count(kills, jobs[i].oid) > 0
    /\ \E i \in DOMAIN jobs :
           /\ StillRunning(jobs[i])
           /\ jobs[i].retry_staleness # NoKey
           /\ jobs[i].age > jobs[i].retry_staleness

\* Between the calls of poll_jobs (one that raises does not complete) the
\* retry count of a registered job is the number of times it was killed as
\* stalled, and it is at most max_retries.
RetriesWithinBound ==
    pc # "raised" =>
        \A i \in DOMAIN jobs :
            jobs[i].n_retries # NoKey =>
                /\ jobs[i].n_retries = Count(kills, jobs[i].oid)
                /\ jobs[i].n_retries <= jobs[i].max_retries

\* A poll_jobs that completes and kills job i: the kill is one more kill of
\* the job; if it is kill number max_retries + 1 the response carries
\* MaxRetriesReached and the job is gone from the registry, otherwise the job
\* is back in the registry as 'redo' with the kill counted.
KillOutcome(i) ==
    LET job == jobs[i]
        n_kills == Count(kills', job.oid)
    IN  /\ n_kills = Count(kills, job.oid) + 1
        /\ IF n_kills = job.max_retries + 1
           THEN /\ "MaxRetriesReached" \in response'
                /\ \A k \in DOMAIN jobs' : jobs'[k].oid # job.oid
           ELSE /\ n_kills <= job.max_retries
                /\ \E k \in DOMAIN jobs' :
                       /\ jobs'[k].oid = job.oid
                       /\ jobs'[k].status = "redo"
                       /\ jobs'[k].n_retries = n_kills

\* C6: the n_retries of a job in the registry never exceeds max_retries, and
\* kill number max_retries + 1 of the same job is reported as
\* MaxRetriesReached, with the job not put back in the registry.
C6_RetryBound ==
    /\ []RetriesWithinBound
    /\ [][PollStep /\ pc' = "check" =>
             \A i \in DOMAIN jobs :
                 StillRunning(jobs[i]) /\ Terminated(i) => KillOutcome(i)]_vars

\* A job was killed max_retries + 1 times and is in the registry no more; the
\* agent has stopped with MaxRetriesReached.
C6_GaveUp ==
    /\ pc = "stopped"
    /\ "MaxRetriesReached" \in response
    /\ \E o \in DOMAIN kills :
           /\ kills[o] = max_retries + 1
           /\ \A k \in DOMAIN jobs : jobs[k].oid # o

(***************************************************************************)
(* The life cycle of a dataset                                             *)
(***************************************************************************)
LifecycleOrder ==
    <<"Queued", "Set up", "Ready to download", "Downloading", "Ready to convert",
      "Converting", "Ready to compress", "Compressing", "Wait">>

InLifecycle(state) == state \in Range(LifecycleOrder)

Rank(state) == CHOOSE k \in DOMAIN LifecycleOrder : LifecycleOrder[k] = state

\* From processing_state a to b is no move, a move to an error state, or a
\* move forward along the order.
Forward(a, b) ==
    \/ a = b
    \/ ~InLifecycle(b)
    \/ InLifecycle(a) /\ Rank(a) < Rank(b)

\* C7: over the process_dataset calls and the add_dataset commands of a run,
\* the processing_state of a dataset only moves forward along the order
\* Queued, Set up, Ready to download, Downloading, Ready to convert,
\* Converting, Ready to compress, Compressing, Wait, or to an error state.
C7_NeverRegresses ==
    [][\A d \in DOMAIN datasets :
          /\ d \in DOMAIN datasets'
          /\ Forward(datasets[d].processing_state, datasets'[d].processing_state)]_vars

\* A step of dataset_processor.process() in main_task.
ProcessStep == pc = "process" /\ pc' # "process"

\* Every raw FileRecord the dataset tracks is READY.
AllRawReady(d) ==
    \A r \in DOMAIN datasets[d].ms_runs :
        files[datasets[d].ms_runs[r]].status = "READY"

\* C9: when assess_download has run for a dataset in Ready to download or
\* Downloading (and found no error), the dataset is in Ready to convert if
\* every raw FileRecord it tracks is READY, and in Downloading otherwise.
C9_LeavesDownloading ==
    [][ProcessStep =>
          \A d \in DOMAIN datasets :
              /\ datasets[d].processing_state \in {"Ready to download", "Downloading"}
              /\ datasets'[d].status # "ERROR"
              => datasets'[d].processing_state
                    = IF AllRawReady(d)' THEN "Ready to convert" ELSE "Downloading"]_vars

\* C8: once the status of a dataset is ERROR, every later process_dataset
\* call leaves the dataset as it is: the status is still ERROR and no
\* assessment has worked on it. (Only an add_dataset of the same id, which
\* makes the dataset QUEUED, starts it again.)
C8_ErrorIsTerminal ==
    [][\A d \in DOMAIN datasets :
          datasets[d].status = "ERROR" =>
              \/ datasets'[d].status = "QUEUED"
              \/ datasets'[d] = datasets[d]]_vars

\* The dataset has been through setup and every raw FileRecord it tracks (and
\* every converted one: it tracks none) is READY.
RawFilesReady(d) ==
    /\ d \in DOMAIN datasets
    /\ datasets[d].processing_state \in {"Downloading", "Ready to convert", "Wait"}
    /\ AllRawReady(d)

AtWait(d) ==
    /\ d \in DOMAIN datasets
    /\ datasets[d].processing_state = "Wait"
    /\ datasets[d].status = "READY"

\* C10: a dataset whose raw and converted files are all READY gets to
\* processing_state Wait with status READY, and from then on a process() pass
\* changes neither the dataset nor the FileRecords nor the task list.
C10_ReachesWait ==
    /\ RawFilesReady(PXD1) ~> AtWait(PXD1)
    /\ [][ProcessStep =>
             \A d \in DOMAIN datasets :
                 AtWait(d) => /\ datasets'[d] = datasets[d]
                              /\ files' = files
                              /\ tasks_todo' = tasks_todo]_vars

(***************************************************************************)
(* FileRecords and tasks                                                   *)
(***************************************************************************)
\* The raw files a dataset is expected to have: the names of the record, or
\* the names with a raw extension that the FTP directory lists.
RawNames(d) ==
    IF remote[d].has_files THEN Range(remote[d].files)
    ELSE {name \in Range(remote[d].listing) : IsRawName(name)}

RecordsOf(path) == {i \in DOMAIN files : files[i].full_path = path}

TasksFor(i) ==
    {k \in DOMAIN tasks_todo :
        tasks_todo[k].command = "download_file" /\ tasks_todo[k].file_metadata = i}

\* assess_download has enumerated the runs of the dataset.
Enumerated(d) ==
    /\ d \in DOMAIN datasets
    /\ datasets[d].processing_state \in {"Downloading", "Ready to convert", "Wait"}

\* Every expected raw file has one FileRecord, tracked under its fileroot,
\* and one download_file task if the record is TODO (none if the file was
\* found on disk).
OneRecordOneTask(d) ==
    \A name \in RawNames(d) :
        /\ Cardinality(RecordsOf(<<d, name>>)) = 1
        /\ \A i \in RecordsOf(<<d, name>>) :
               /\ Fileroot(name) \in DOMAIN datasets[d].ms_runs
               /\ datasets[d].ms_runs[Fileroot(name)] = i
               /\ Cardinality(TasksFor(i))
                      = IF files[i].status = "TODO" THEN 1 ELSE 0

RunningOf(t) == {i \in DOMAIN jobs : jobs[i].type = t /\ jobs[i].status = "run"}
WaitingOf(t) == {i \in DOMAIN jobs : jobs[i].type = t /\ Waiting(jobs[i])}

LaunchStep == pc = "launch" /\ pc' = "poll"

\* C12: a launch_jobs pass entered with n_running_jobs below max_running_jobs
\* starts the queued jobs of a type until the running jobs of the type reach
\* the cap of the type and no further: after the pass the running jobs of the
\* type are the cap or all the jobs of the type, whichever is fewer, the count
\* of the type says so, the pass starts the jobs in the order of its list
\* (requeued ones first) and leaves every other job as it was.
C12_StartsUpToTypeCap ==
    [][LaunchStep /\ job_control.n_running_jobs < config.max_running_jobs =>
          \A t \in JobTypes :
              LET cap == config.max_running_jobs_by_type[t]
                  started == RunningOf(t)' \ RunningOf(t)
                  left == WaitingOf(t)'
              IN  /\ Cardinality(RunningOf(t)) <= cap
                  /\ Cardinality(RunningOf(t)')
                         = Min(cap, Cardinality(RunningOf(t)) + Cardinality(WaitingOf(t)))
                  /\ WaitingOf(t) # {} =>
                         job_control'.n_running_jobs_by_type[t] = Cardinality(RunningOf(t)')
                  /\ started \cup left = WaitingOf(t)
                  /\ \A i \in left : jobs'[i] = jobs[i]
                  /\ \A i \in started, j \in left :
                         \/ jobs[i].status = "redo" /\ jobs[j].status = "qw"
                         \/ jobs[i].status = jobs[j].status /\ i < j]_vars

\* With the caps 2 and 1, the first pass over three queued download jobs has
\* started one and left two queued.
C12_OneOfThree ==
    /\ pc = "poll"
    /\ config.max_running_jobs = 2
    /\ config.max_running_jobs_by_type["download"] = 1
    /\ ids_used = <<1, 2, 3>>
    /\ DOMAIN jobs = {1, 2, 3}
    /\ \A i \in DOMAIN jobs : jobs[i].type = "download"
    /\ Cardinality({i \in DOMAIN jobs : jobs[i].status = "run"}) = 1
    /\ Cardinality({i \in DOMAIN jobs : jobs[i].status = "qw"}) = 2
    /\ job_control.n_running_jobs = 1

(***************************************************************************)
(* Kill and requeue                                                        *)
(***************************************************************************)
\* The entries of the registry `reg` that are job i of `jobs` (same first id).
SameJob(reg, i) == {k \in DOMAIN reg : reg[k].oid = jobs[i].oid}

\* poll_jobs judges job i stalled and its retries are not used up.
StalledWithRetries(i) ==
    /\ StillRunning(jobs[i])
    /\ Reached(i)
    /\ BothBeyondWindow(i)
    /\ jobs[i].n_retries # NoKey
    /\ jobs[i].n_retries < jobs[i].max_retries

\* C13: a poll_jobs that judges a running job stalled with retries left
\* terminates its subprocess and takes it out of the registry under its old
\* id; after the poll the job is in the registry once, under a new id, with
\* status redo, handle and pid cleared and n_retries one more than before; it
\* counts as running no more and n_jobs is the size of the registry, so the
\* kill and the requeue cancel out.
C13_KillAndRequeue ==
    [][PollStep /\ pc' = "check" =>
          /\ \A i \in DOMAIN jobs :
                 StalledWithRetries(i) =>
                     /\ Terminated(i)
                     /\ i \notin DOMAIN jobs'
                     /\ Cardinality(SameJob(jobs', i)) = 1
                     /\ \A k \in SameJob(jobs', i) :
                            /\ k \notin DOMAIN jobs
                            /\ jobs'[k].status = "redo"
                            /\ jobs'[k].handle = "None"
                            /\ jobs'[k].n_retries = jobs[i].n_retries + 1
                            /\ jobs'[k] = [jobs[i] EXCEPT !.status = "redo",
                                                          !.handle = "None",
                                                          !.n_retries = @ + 1,
                                                          !.age = jobs'[k].age]
          /\ (\E i \in DOMAIN jobs : StalledWithRetries(i)) =>
                 /\ job_control'.n_jobs = Cardinality(DOMAIN jobs')
                 /\ job_control'.n_running_jobs
                        = Cardinality({k \in DOMAIN jobs' : jobs'[k].status = "run"})
                 /\ \A t \in JobTypes :
                        job_control'.n_running_jobs_by_type[t]
                            = Cardinality(RunningOf(t)')
                 /\ job_control'.n_running_jobs
                        = job_control.n_running_jobs
                              - Cardinality(DOMAIN jobs \ DOMAIN jobs')
                 /\ (\A i \in DOMAIN jobs \ DOMAIN jobs' : StalledWithRetries(i)) =>
                        job_control'.n_jobs = job_control.n_jobs]_vars

\* The first stall of a download: the only job of the registry was killed
\* with n_retries 0 and is back as redo with n_retries 1 under the next id.
C13_FirstStall ==
    /\ pc = "check"
    /\ kills = (1 :> 1)
    /\ DOMAIN jobs = {2}
    /\ jobs[2].oid = 1
    /\ jobs[2].status = "redo"
    /\ jobs[2].handle = "None"
    /\ jobs[2].n_retries = 1
    /\ job_control.n_jobs = 1
    /\ job_control.n_running_jobs = 0

(***************************************************************************)
(* Exhausted retries and the dataset                                       *)
(***************************************************************************)
\* The statuses of a FileRecord that is still to be had.
PendingStatuses == {"TODO", "DOWNLOADING"}

\* poll_jobs has given up the download of FileRecord i: a job was killed
\* max_retries + 1 times, the response says so, and no job and no task is left
\* for the record.
GaveUpOn(i) ==
    /\ pc \in {"check", "stopped"}
    /\ "MaxRetriesReached" \in response
    /\ \E o \in DOMAIN kills : kills[o] = max_retries + 1
    /\ \A k \in DOMAIN jobs : jobs[k].file_handle # i
    /\ TasksFor(i) = {}

\* C14: once poll_jobs has given up the download of a raw file for good, the
\* FileRecord of the file is pending no more or its dataset is in ERROR, so
\* that process_dataset sees that the file will not come.
C14_ExhaustionVisible ==
    \A d \in DOMAIN datasets :
        \A r \in DOMAIN datasets[d].ms_runs :
            LET i == datasets[d].ms_runs[r]
            IN  GaveUpOn(i) =>
                    \/ files[i].status \notin PendingStatuses
                    \/ datasets[d].status = "ERROR"

(***************************************************************************)
(* The failure of one dataset and the others                               *)
(***************************************************************************)
\* The dataset is tracked and has not failed.
Healthy(d) == d \in DOMAIN datasets /\ datasets[d].status # "ERROR"

\* C15: the failure of a dataset halts that dataset only. While another
\* tracked dataset has not failed, a process() pass is followed in the same
\* cycle by queue_tasks (and so by launch_jobs and poll_jobs), and the agent
\* does not leave its poll loop unless it is told to stop.
C15_FailureIsLocal ==
    /\ [][ProcessStep /\ (\E d \in DOMAIN datasets' : Healthy(d)') =>
             pc' = "queue"]_vars
    /\ [][pc = "check" /\ pc' = "stopped" /\ (\E d \in DOMAIN datasets : Healthy(d)) =>
             stop_file]_vars

(***************************************************************************)
(* The command file and its pointer                                        *)
(***************************************************************************)
\* The characters of the first k lines of agent_commands.txt.
RECURSIVE LineEnd(_)
LineEnd(k) == IF k = 0 THEN 0 ELSE LineEnd(k - 1) + Len(cmd_file[k])

ReadStep == pc = "read" /\ pc' = "process"

\* C16: a read_command of a command file that holds nothing beyond the pointer
\* returns no command (the pointer stays and nothing is queued or added), and
\* the pointer never decreases, neither in memory nor in the pointer file,
\* which holds the pointer of the running agent.
C16_PointerMonotone ==
    /\ [][command_pointer' >= command_pointer]_vars
    /\ [][pointer_file # NoKey =>
             pointer_file' # NoKey /\ pointer_file' >= pointer_file]_vars
    /\ [](Running => pointer_file = command_pointer)
    /\ [][ReadStep /\ LineEnd(Len(cmd_file)) <= command_pointer =>
             /\ ~read_command.found
             /\ UNCHANGED <<command_pointer, pointer_file, jobs, job_control,
                            datasets, dataset_ids>>]_vars

\* The agent has read the command file again, after it took its only line in
\* an earlier cycle and launched the job of it, and has found nothing.
C16_ReadAgain ==
    /\ pc = "process"
    /\ cmd_file = <<GET_U>>
    /\ command_pointer = Len(GET_U)
    /\ pointer_file = Len(GET_U)
    /\ DOMAIN jobs = {1}
    /\ jobs[1].status = "run"

\* The line read_command returns: the first one that ends beyond the pointer
\* (0 when there is none).
Delivered ==
    IF \E k \in DOMAIN cmd_file : LineEnd(k) > command_pointer
    THEN CHOOSE k \in DOMAIN cmd_file :
             /\ LineEnd(k) > command_pointer
             /\ \A j \in 1..(k - 1) : LineEnd(j) <= command_pointer
    ELSE 0

\* C17: read_command returns only what was appended past the pointer: the
\* line it returns begins at or after the pointer, so that no line and no part
\* of a line is returned twice, however the writes of the operator arrive
\* (a line may arrive in two pieces, its "\n" last).
C17_DeliveredOnce ==
    [][ReadStep /\ Delivered # 0 =>
          /\ read_command.found
          /\ read_command.line = Rstrip(cmd_file[Delivered])
          /\ LineEnd(Delivered - 1) >= command_pointer]_vars

(***************************************************************************)
(* A launch that fails                                                     *)
(***************************************************************************)
\* The counters of job_control agree with the registry.
CountersAgree ==
    /\ job_control.n_jobs = Cardinality(DOMAIN jobs)
    /\ job_control.n_running_jobs
           = Cardinality({i \in DOMAIN jobs : jobs[i].status = "run"})
    /\ \A t \in DOMAIN job_control.n_running_jobs_by_type :
           job_control.n_running_jobs_by_type[t] = Cardinality(RunningOf(t))

\* C18: when the launch of a job fails in launch_jobs, the pass is not
\* aborted (main_task goes on to poll_jobs), the failure is reported as an
\* error on the response, the job does not count as running and the counters
\* agree with the registry.
C18_LaunchFailureReported ==
    [][\A job_id \in DOMAIN jobs :
          LaunchJobsRaises(job_id) =>
              /\ pc' = "poll"
              /\ response' # response
              /\ jobs'[job_id].status # "run"
              /\ CountersAgree']_vars

(***************************************************************************)
(* Conversion                                                              *)
(***************************************************************************)
\* The run has a converted-file record and the record is READY.
ConvertedReady(d, fileroot) ==
    /\ fileroot \in DOMAIN datasets[d].mzML_file
    /\ files[datasets[d].mzML_file[fileroot]].status = "READY"

\* C19: a dataset is at Wait, or has status READY, only if every raw file of
\* its ms_runs has a converted-file (mzML) record with status READY.
C19_ConvertedBeforeWait ==
    \A d \in DOMAIN datasets :
        datasets[d].processing_state = "Wait" \/ datasets[d].status = "READY" =>
            \A fileroot \in DOMAIN datasets[d].ms_runs : ConvertedReady(d, fileroot)

\* The tasks of `tasks` that ask for the conversion to FileRecord i.
ConversionsFor(tasks, i) ==
    {k \in DOMAIN tasks :
        tasks[k].command = "convert_to_mzML" /\ tasks[k].file_metadata = i}

ConsideredBefore(i, j) ==
    \/ jobs[i].status = "redo" /\ jobs[j].status = "qw"
    \/ jobs[i].status = jobs[j].status /\ i < j

\* The waiting jobs of the type of job i that are considered before it.
AheadOf(i) ==
    {j \in DOMAIN jobs : /\ Waiting(jobs[j])
                         /\ jobs[j].type = jobs[i].type
                         /\ ConsideredBefore(j, i)}

\* C21: a launch_jobs pass that goes through its loop considers the requeued
\* jobs before the queued ones, each group in insertion order, and skips a
\* candidate whose type is at its cap without holding back the candidates of
\* other types: a waiting job is started exactly if the running jobs of its
\* type and the waiting jobs of its type considered before it are fewer than
\* the cap of the type.
C21_RedoFirstSkipCapped ==
    [][LaunchStep /\ job_control.n_jobs # 0
          /\ job_control.n_running_jobs < config.max_running_jobs =>
          \A i \in DOMAIN jobs :
              Waiting(jobs[i]) =>
                  /\ jobs'[i].status = "run"
                         <=> job_control.n_running_jobs_by_type[jobs[i].type]
                                 + Cardinality(AheadOf(i))
                                     < config.max_running_jobs_by_type[jobs[i].type]
                  /\ jobs'[i].status # "run" => jobs'[i] = jobs[i]]_vars

\* With a cap of 1 for downloads, the pass has started the requeued download
\* 2, has skipped the queued download 1, which was inserted before it, and
\* has started job 3 of the other type after the skip.
C21_SkippedThenStarted ==
    /\ pc = "poll"
    /\ config.max_running_jobs_by_type["download"] = 1
    /\ DOMAIN jobs = {1, 2, 3}
    /\ jobs[1].type = "download" /\ jobs[1].status = "qw"
    /\ jobs[2].type = "download" /\ jobs[2].status = "run"
    /\ jobs[2].n_retries = 1 /\ jobs[2].age = 0
    /\ jobs[3].type = "convert" /\ jobs[3].status = "run" /\ jobs[3].age = 0

(***************************************************************************)
(* The exit of a download                                                  *)
(***************************************************************************)
\* Job i counts as running, its subprocess has exited and it has a FileRecord.
ExitedDownload(i) ==
    /\ jobs[i].status = "run"
    /\ jobs[i].handle = "exited"
    /\ jobs[i].type = "download"
    /\ jobs[i].file_handle # NoFile

\* C22: a poll_jobs that finds a running download exited takes the job out
\* of the registry under its id and counts it out. If the output file is
\* there the FileRecord of the job becomes READY, complete and sized and the
\* job is gone; if the file is not there the FileRecord stays as it was, not
\* READY, and the job is back in the registry once, under a new id, with
\* status redo and as many retries as before.
C22_ExitClosesDownload ==
    [][PollStep /\ pc' = "check" =>
          /\ \A i \in DOMAIN jobs :
                 ExitedDownload(i) =>
                     LET record == jobs[i].file_handle
                     IN  /\ i \notin DOMAIN jobs'
                         /\ IF files[record].full_path \in DOMAIN disk
                            THEN /\ files'[record].status = "READY"
                                 /\ files'[record].is_complete
                                 /\ files'[record].current_size = "size"
                                 /\ SameJob(jobs', i) = {}
                            ELSE /\ files'[record] = files[record]
                                 /\ files'[record].status # "READY"
                                 /\ Cardinality(SameJob(jobs', i)) = 1
                                 /\ \A k \in SameJob(jobs', i) :
                                        /\ k \notin DOMAIN jobs
                                        /\ jobs'[k].status = "redo"
                                        /\ jobs'[k].handle = "None"
                                        /\ jobs'[k].n_retries = jobs[i].n_retries
          /\ (\E i \in DOMAIN jobs : ExitedDownload(i)) =>
                 /\ job_control'.n_jobs = Cardinality(DOMAIN jobs')
                 /\ job_control'.n_running_jobs
                        = job_control.n_running_jobs
                              - Cardinality(DOMAIN jobs \ DOMAIN jobs')
                 /\ job_control'.n_running_jobs_by_type["download"]
                        = job_control.n_running_jobs_by_type["download"]
                              - Cardinality({i \in DOMAIN jobs \ DOMAIN jobs' :
                                                jobs[i].type = "download"})]_vars

\* poll_jobs has closed two exited downloads: the file of one was there and
\* its FileRecord is READY with no job left for it, the file of the other was
\* not and its job is back as redo with its FileRecord still TODO.
C22_OneReadyOneRequeued ==
    /\ pc = "check"
    /\ \E r \in DOMAIN files :
           /\ files[r].status = "READY"
           /\ files[r].current_size = "size"
           /\ \A k \in DOMAIN jobs : jobs[k].file_handle # r
    /\ \E k \in DOMAIN jobs :
           /\ jobs[k].status = "redo"
           /\ jobs[k].n_retries = 0
           /\ jobs[k].oid < k
           /\ files[jobs[k].file_handle].status = "TODO"
           /\ files[jobs[k].file_handle].full_path \notin DOMAIN disk

(***************************************************************************)
(* C23: one call of process_dataset does the work of one lifecycle state   *)
(***************************************************************************)
\* The place of a processing_state in the lifecycle; an error code has none.
StageOf(state) ==
    CASE state \in {"Queued", "Set up"} -> 0
      [] state \in {"Ready to download", "Downloading"} -> 1
      [] state = "Ready to convert" -> 2
      [] state = "Wait" -> 3
      [] OTHER -> 0 - 1

\* What the one assessment made for `before` can leave behind.
OneAssessment(before, after) ==
    LET from == StageOf(before.processing_state)
        to == StageOf(after.processing_state)
    IN  /\ to \in {0 - 1, from, from + 1}
        /\ to = 0 - 1 /\ from # 0 - 1 => after.status = "ERROR"
        /\ after.status = "READY" => before.processing_state = "Wait"
        /\ from = 0 => after.ms_runs = before.ms_runs /\ after.manifest_status = "absent"
        /\ from = 1 => after.has_px = before.has_px
        /\ from \in {2, 3} => /\ after.ms_runs = before.ms_runs
                             /\ after.manifest_status = before.manifest_status

\* C23: a call of process_dataset moves a dataset by the outcome of the one
\* assessment that belongs to the state it was in: its processing_state stays,
\* becomes the next stage or becomes an error code, it becomes READY only from
\* 'Wait', and the call does none of the work of the following state (no
\* manifest or run is tracked by the call that sets the dataset up, a dataset
\* moved to 'Wait' is not marked READY by the same call).
C23_OneStatePerCall ==
    [][\A d \in DOMAIN datasets :
           d \in DOMAIN datasets' /\ datasets'[d] # datasets[d] /\ datasets'[d] # NewDataset
               => OneAssessment(datasets[d], datasets'[d])]_vars

\* A dataset whose files were all on disk has been moved to 'Wait' by one call
\* and is not yet READY: that takes another call.
C23_WaitNotYetReady ==
    \E d \in DOMAIN datasets :
        /\ datasets[d].processing_state = "Wait"
        /\ datasets[d].status = "PROCESSING"
        /\ datasets[d].ms_runs # <<>>

(***************************************************************************)
(* C24: assess_setup reaches 'Ready to download' only on success           *)
(***************************************************************************)
\* The error codes assess_setup assigns for a structural failure.
SetupErrorCodes ==
    {"MissingLocation", "InvalidLocation", "LocationMissing", "PXRecordMissing",
     "CannotFetchPXRecord", "CannotParsePXJSON", "CannotFindfullDatasetLinks"}

\* C24: a call of assess_setup (a pass over a dataset at 'Queued' or 'Set up')
\* leaves the dataset at 'Ready to download' only when it succeeded (its status
\* is not ERROR), and a dataset it leaves with status ERROR has the error code
\* of the failure as its processing_state.
C24_ReadyOnlyOnSuccess ==
    [][\A d \in DOMAIN datasets :
           /\ d \in DOMAIN datasets'
           /\ datasets[d].processing_state \in {"Queued", "Set up"}
           /\ datasets'[d] # datasets[d] /\ datasets'[d] # NewDataset
           => /\ datasets'[d].processing_state = "Ready to download"
                  => datasets'[d].status # "ERROR"
              /\ datasets'[d].status = "ERROR"
                  => datasets'[d].processing_state \in SetupErrorCodes]_vars

(***************************************************************************)
(* C25: queue_tasks translates each task once                              *)
(***************************************************************************)
\* The step of main_task that queues the tasks of the DatasetProcessor.
QueueStep == pc = "queue" /\ pc' = "launch"

\* C25: queue_tasks adds one job for each task of tasks_todo, in the order of
\* the list and for the FileRecord of the task, and leaves tasks_todo empty;
\* the next process() pass starts from an empty list, so a task is never
\* translated in a later cycle again.
C25_TranslatedOnce ==
    /\ [](pc \in {"read", "process", "launch", "poll"} => tasks_todo = <<>>)
    /\ [][QueueStep =>
             /\ tasks_todo' = <<>>
             /\ DOMAIN jobs' = DOMAIN jobs \union
                    {job_control.job_index + k - 1 : k \in DOMAIN tasks_todo}
             /\ job_control'.n_jobs = job_control.n_jobs + Len(tasks_todo)
             /\ \A i \in DOMAIN jobs : jobs'[i] = jobs[i]
             /\ \A k \in DOMAIN tasks_todo :
                    LET job == jobs'[job_control.job_index + k - 1]
                    IN  /\ job.status = "qw"
                        /\ job.file_handle = tasks_todo[k].file_metadata]_vars

\* Three tasks (the manifest and two raw files) were translated in one call:
\* three waiting jobs, one for each FileRecord, and an empty task list.
C25_ThreeJobsQueued ==
    /\ pc = "launch"
    /\ tasks_todo = <<>>
    /\ \E i, j, k \in DOMAIN jobs :
           /\ j = i + 1 /\ k = j + 1
           /\ \A m \in {i, j, k} : jobs[m].status = "qw" /\ jobs[m].file_handle # NoFile
           /\ Cardinality({jobs[m].file_handle : m \in {i, j, k}}) = 3

(***************************************************************************)
(* C26: a task with an unrecognized command                                *)
(***************************************************************************)
Recognized(task) == task.command \in {"download_file", "convert_to_mzML"}

\* The recognized tasks among the first k tasks of the list.
RecognizedUpTo(tasks, k) == {m \in 1..k : Recognized(tasks[m])}

\* C26: queue_tasks reports a task whose command it does not know as an
\* UnrecognizedTaskName error and does not raise; it adds no job for that task,
\* still adds one job for every recognized task of the list, those after the
\* unknown one included, and still clears the list.
C26_UnrecognizedIsReported ==
    /\ [](pc # "raised")
    /\ [][QueueStep =>
             /\ tasks_todo' = <<>>
             /\ (\E k \in DOMAIN tasks_todo : ~Recognized(tasks_todo[k]))
                    <=> "UnrecognizedTaskName" \in response'
             /\ Cardinality(DOMAIN jobs' \ DOMAIN jobs)
                    = Cardinality(RecognizedUpTo(tasks_todo, Len(tasks_todo)))
             /\ \A k \in DOMAIN tasks_todo :
                    LET job_id == job_control.job_index
                                      + Cardinality(RecognizedUpTo(tasks_todo, k)) - 1
                    IN  Recognized(tasks_todo[k]) =>
                            /\ job_id \in DOMAIN jobs' \ DOMAIN jobs
                            /\ jobs'[job_id].file_handle = tasks_todo[k].file_metadata]_vars

\* The second of three tasks was not recognized: the error is reported, the
\* first and the third FileRecord have their jobs, the second has none, and the
\* list is empty.
C26_MiddleTaskUnknown ==
    /\ pc = "launch"
    /\ "UnrecognizedTaskName" \in response
    /\ tasks_todo = <<>>
    /\ DOMAIN jobs = {1, 2}
    /\ jobs[1].file_handle = 1
    /\ jobs[2].file_handle = 3

(***************************************************************************)
(* C27: an error is reported and its code is kept                          *)
(***************************************************************************)
\* C27: whenever a call makes the status of a dataset ERROR, the
\* processing_state the call leaves is an error code (no lifecycle state) and
\* that code is among the errors reported through the response.
C27_ErrorReportedAndKept ==
    [][\A d \in DOMAIN datasets :
           /\ d \in DOMAIN datasets'
           /\ datasets[d].status # "ERROR"
           /\ datasets'[d].status = "ERROR"
           => /\ StageOf(datasets'[d].processing_state) = 0 - 1
              /\ datasets'[d].processing_state \in dp_response']_vars

(***************************************************************************)
(* C28: the order of the steps of one cycle                                *)
(***************************************************************************)
\* The steps of start, main_task and run in the order the code takes them.
CycleOrder ==
    {<<"start", "read">>, <<"start", "failed">>, <<"read", "process">>,
     <<"process", "queue">>, <<"process", "check">>, <<"queue", "launch">>,
     <<"launch", "poll">>, <<"launch", "raised">>, <<"poll", "check">>,
     <<"poll", "raised">>, <<"check", "read">>, <<"check", "stopped">>}

\* Job i is running after the step and was not before it.
Started(i) ==
    /\ i \in DOMAIN jobs' /\ jobs'[i].status = "run"
    /\ i \notin DOMAIN jobs \/ jobs[i].status # "run"

\* C28: the steps of a cycle come in the order process, queue, launch, poll;
\* the datasets move in the process step only (and by add_dataset before it),
\* jobs are started in the launch step only, and the poll step leaves the
\* datasets and the tasks alone, terminates a job at most once and puts the jobs
\* it requeues back waiting (redo, no process) in place of the running ones it
\* removes, so that a requeued job is started by the launch step of a later
\* cycle; a FileRecord is made READY for a job by the poll step only and stays
\* READY, so that the process step of the next cycle runs with it.
C28_CycleOrder ==
    [][/\ pc' # pc => <<pc, pc'>> \in CycleOrder
       /\ datasets' # datasets => pc \in {"read", "process"}
       /\ (\E i \in DOMAIN jobs' : Started(i)) => pc = "launch"
       /\ \A r \in DOMAIN files :
              /\ files[r].status = "READY" => files'[r].status = "READY"
              /\ files[r].status # "READY" /\ files'[r].status = "READY" => PollStep
       /\ PollStep =>
              /\ datasets' = datasets /\ tasks_todo' = tasks_todo
              /\ \A o \in DOMAIN kills' : Count(kills', o) <= Count(kills, o) + 1
              /\ \A k \in DOMAIN jobs' \ DOMAIN jobs :
                     /\ jobs'[k].status = "redo"
                     /\ jobs'[k].handle = "None"
                     /\ \E i \in DOMAIN jobs \ DOMAIN jobs' :
                            jobs[i].oid = jobs'[k].oid /\ jobs[i].status = "run"]_vars

\* The process step of a cycle has run with a FileRecord that a poll step made
\* READY, while a job that a poll step requeued is running again: it was
\* started by the launch step of a later cycle.
C28_RequeuedRunsNextCycle ==
    /\ pc = "queue"
    /\ \E r \in DOMAIN files : files[r].status = "READY" /\ files[r].current_size = "size"
    /\ \E k \in DOMAIN jobs :
           /\ jobs[k].oid < k
           /\ jobs[k].status = "run"
           /\ jobs[k].handle = "alive"

(***************************************************************************)
(* C29: the STOP file                                                      *)
(***************************************************************************)
\* C29: the STOP file is looked at in one place, after main_task and the
\* sleep: with the file there the agent leaves that place for stop() and for
\* nowhere else, so that it starts no main_task after the one the file was
\* created in, and it does get there; stop() removes the PID file and the STOP
\* file, which nothing else removes, and leaves the registry, its counters,
\* the running subprocesses and the FileRecords as they were.
C29_StopAtCheckpoint ==
    /\ [][stop_file /\ pc = "check" /\ pc' # pc => pc' = "stopped"]_vars
    /\ [][stop_file /\ ~stop_file' => pc = "check" /\ pc' = "stopped"]_vars
    /\ [][pc # "stopped" /\ pc' = "stopped" =>
              /\ ~pid_file' /\ ~stop_file'
              /\ jobs' = jobs /\ job_control' = job_control
              /\ kills' = kills /\ files' = files]_vars
    /\ stop_file ~> pc = "stopped"

\* The agent has stopped at the STOP file with a download still running: the
\* job is in the registry, its subprocess is alive, both files are gone.
C29_StoppedWithJobInFlight ==
    /\ pc = "stopped"
    /\ ResponseStatus(response) = "OK"
    /\ ~pid_file /\ ~stop_file
    /\ \E i \in DOMAIN jobs : jobs[i].status = "run" /\ jobs[i].handle = "alive"
    /\ job_control.n_running_jobs > 0

(***************************************************************************)
(* C30: the PID file                                                       *)
(***************************************************************************)
\* The agent is in its run loop (or left it by an exception).
InRunLoop == pc \notin {"start", "failed", "stopped"}

\* C30: an agent started with the PID file in place reports
\* PIDFileAlreadyExists and goes no further: it touches no file and never
\* enters the run loop; an agent started without it has created the file when
\* it enters the loop, the file is there for as long as it runs, and it is gone
\* when the agent has stopped through stop().
C30_OneInstance ==
    /\ [](InRunLoop => pid_file)
    /\ [](pc = "stopped" => ~pid_file)
    /\ [](pc = "failed" => "PIDFileAlreadyExists" \in response /\ pid_file)
    /\ [][pc = "start" /\ pc' # pc =>
              IF pid_file
              THEN /\ pc' = "failed"
                   /\ UNCHANGED <<env_vars, command_pointer, jobs, job_control, dp_vars>>
              ELSE pc' = "read" /\ pid_file']_vars
    /\ [][pc = "failed" => pc' = "failed"]_vars

\* The start of an agent that found the PID file of another instance: it has
\* failed with PIDFileAlreadyExists, the PID file and the STOP file the
\* operator left are as they were, and nothing was read or queued.
C30_SecondInstanceRefused ==
    /\ pc = "failed"
    /\ response = {"PIDFileAlreadyExists"}
    /\ pid_file /\ stop_file
    /\ command_pointer = 0 /\ pointer_file = NoKey
    /\ jobs = <<>> /\ datasets = <<>>

(***************************************************************************)
(* C31: the status of the manifest                                         *)
(***************************************************************************)
\* The place of a manifest status in UNKNOWN, DOWNLOADING, READY | UNAVAILABLE
\* ("absent": the dataset has no 'manifest' entry yet).
ManifestRank(status) ==
    CASE status = "absent" -> 0
      [] status = "UNKNOWN" -> 1
      [] status = "DOWNLOADING" -> 2
      [] status \in {"READY", "UNAVAILABLE"} -> 3

\* The tasks of `tasks` that ask for the manifest of dataset d.
ManifestTasks(tasks, records, d) ==
    {k \in DOMAIN tasks : records[tasks[k].file_metadata].full_path = <<d, README>>}

\* C31: over the assess_download passes and the job completions (every step
\* but an add_dataset command for the dataset) the manifest status of a
\* dataset never moves back in UNKNOWN, DOWNLOADING, READY | UNAVAILABLE, READY
\* and UNAVAILABLE are kept for good, and a download_file task for the
\* manifest is emitted only by the pass that moves the status to DOWNLOADING,
\* one task: at most one is ever emitted.
C31_ManifestTriState ==
    [][\A d \in DOMAIN datasets :
           d \in DOMAIN datasets' /\ datasets'[d] # NewDataset =>
               LET before == datasets[d].manifest_status
                   after == datasets'[d].manifest_status
                   asked == Cardinality(ManifestTasks(tasks_todo', files', d))
                                - Cardinality(ManifestTasks(tasks_todo, files, d))
               IN  /\ ManifestRank(after) >= ManifestRank(before)
                   /\ ManifestRank(before) = 3 => after = before
                   /\ asked <= 1
                   /\ asked = 1 => ManifestRank(before) < 2 /\ after = "DOWNLOADING"]_vars

\* The manifest was asked for once, its job has exited with the file in place
\* and the pass after found the file: the status is READY and no task and no
\* job for the manifest is left.
C31_ManifestDownloaded ==
    \E d \in DOMAIN datasets :
        /\ datasets[d].manifest_status = "READY"
        /\ ManifestTasks(tasks_todo, files, d) = {}
        /\ \E r \in DOMAIN files :
               /\ files[r].full_path = <<d, README>>
               /\ files[r].status = "READY" /\ files[r].current_size = "size"
        /\ \A k \in DOMAIN jobs : files[jobs[k].file_handle].full_path # <<d, README>>

(***************************************************************************)
(* C32: FileRecords are kept                                               *)
(***************************************************************************)
\* The FileRecords the dictionary of dataset d refers to: manifest['file'] and
\* the raw_file and mzML_file of its ms_runs.
OwnedBy(d) ==
    (IF datasets[d].manifest_file = NoFile THEN {} ELSE {datasets[d].manifest_file})
        \union {datasets[d].ms_runs[r] : r \in DOMAIN datasets[d].ms_runs}
        \union {datasets[d].mzML_file[r] : r \in DOMAIN datasets[d].mzML_file}

\* C32: every FileRecord that was created is still referred to by a tracked
\* dataset, and the file_handle of every job is such a record.
C32_RecordsKept ==
    /\ \A r \in DOMAIN files : \E d \in DOMAIN datasets : r \in OwnedBy(d)
    /\ \A k \in DOMAIN jobs :
           jobs[k].file_handle # NoFile =>
               \E d \in DOMAIN datasets : jobs[k].file_handle \in OwnedBy(d)

(***************************************************************************)
(* C33: the counters of the running jobs                                   *)
(***************************************************************************)
\* The types that have a running job or a counter.
CountedTypes ==
    {jobs[i].type : i \in DOMAIN jobs} \union DOMAIN job_control.n_running_jobs_by_type

\* C33: whenever launch_jobs and poll_jobs have completed (a call that raises
\* does not complete), n_running_jobs is the number of registry entries with
\* status run and n_running_jobs_by_type[t] the number of those of type t (a
\* type without a counter has none running), and no counter is ever negative.
C33_RunningCounters ==
    /\ pc # "raised" =>
           /\ job_control.n_running_jobs
                  = Cardinality({i \in DOMAIN jobs : jobs[i].status = "run"})
           /\ \A t \in CountedTypes :
                  IF t \in DOMAIN job_control.n_running_jobs_by_type
                  THEN job_control.n_running_jobs_by_type[t] = Cardinality(RunningOf(t))
                  ELSE RunningOf(t) = {}
    /\ job_control.n_jobs >= 0
    /\ job_control.n_running_jobs >= 0
    /\ \A t \in DOMAIN job_control.n_running_jobs_by_type :
           job_control.n_running_jobs_by_type[t] >= 0

\* poll_jobs has killed and requeued a stalled download while another job went
\* on running: one job is counted as running, of type download.
C33_OneKilledOneRunning ==
    /\ pc = "check"
    /\ \E i \in DOMAIN jobs : jobs[i].status = "redo" /\ Count(kills, jobs[i].oid) > 0
    /\ \E i \in DOMAIN jobs : jobs[i].status = "run" /\ jobs[i].handle = "alive"
    /\ job_control.n_running_jobs = 1
    /\ job_control.n_running_jobs_by_type["download"] = 1

(***************************************************************************)
(* C34: the requeue of a download that left no file                        *)
(***************************************************************************)
\* C34: when poll_jobs finds a download exited with its output file absent it
\* requeues the job with n_retries as it was and reports no MaxRetriesReached,
\* however often the job has been requeued before; with a subprocess that
\* never leaves the file, the job, once queued, is in the registry after every
\* poll and its n_retries stays 0.
C34_RequeueUncounted ==
    /\ [](\A k \in DOMAIN jobs : jobs[k].n_retries = 0)
    /\ []("MaxRetriesReached" \notin response)
    /\ [](pc = "check" /\ ids_used # <<>> => jobs # <<>>)
    /\ [][PollStep =>
              \A i \in DOMAIN jobs :
                  ExitedDownload(i) /\ files[jobs[i].file_handle].full_path \notin DOMAIN disk =>
                      \E k \in DOMAIN jobs' \ DOMAIN jobs :
                          /\ jobs'[k].oid = jobs[i].oid
                          /\ jobs'[k].status = "redo"
                          /\ jobs'[k].n_retries = jobs[i].n_retries]_vars

\* The download has been requeued more often than max_retries + 1 kills would
\* allow, and is waiting again with n_retries 0 and its FileRecord still TODO.
C34_RequeuedBeyondMaxRetries ==
    \E k \in DOMAIN jobs :
        /\ k - jobs[k].oid > max_retries + 1
        /\ jobs[k].status = "redo"
        /\ jobs[k].n_retries = 0
        /\ files[jobs[k].file_handle].status = "TODO"
        /\ "MaxRetriesReached" \notin response

(***************************************************************************)
(* C35: every download comes to its end                                    *)
(***************************************************************************)
\* Every job that was queued has left the registry and every FileRecord is
\* READY.
AllDownloaded ==
    /\ ids_used # <<>>
    /\ jobs = <<>>
    /\ \A r \in DOMAIN files : files[r].status = "READY" /\ files[r].is_complete

\* C35: with caps of at least 1, a run loop that keeps cycling and
\* subprocesses that each exit in the end with their output file in place,
\* the jobs made from the download_file tasks are all launched and all removed
\* from the registry with their FileRecords READY: from some moment on the
\* registry is empty and stays so.
C35_DownloadsComplete ==
    []<>(pc = "read") /\ []<>(pc = "check") => <>[]AllDownloaded

\* The registry is empty and every FileRecord READY after a download that was
\* killed as stalled, requeued, launched again and then completed.
C35_DoneAfterAKill ==
    /\ AllDownloaded
    /\ kills # <<>>
    /\ \E r \in DOMAIN files : files[r].current_size = "size"

(***************************************************************************)
(* C36: polling a job through its exit                                     *)
(***************************************************************************)
\* C36: poll_jobs never raises: every call of it completes, and every job of
\* type download that it finds exited has a file_handle (with its full_path).
C36_PollCompletes ==
    [][PollStep =>
           /\ pc' = "check"
           /\ \A i \in DOMAIN jobs :
                  jobs[i].status = "run" /\ jobs[i].handle = "exited"
                      /\ jobs[i].type = "download"
                  => jobs[i].file_handle # NoFile]_vars

(***************************************************************************)
(* C37: the return code of a download                                      *)
(***************************************************************************)
\* C37: a poll_jobs that finds a download exited with its output file on disk
\* marks the FileRecord of the job READY and complete and does not requeue the
\* job, whether the return code is 0 or not.
C37_ReadyWhateverTheCode ==
    [][PollStep /\ pc' = "check" =>
           \A i \in DOMAIN jobs :
               /\ jobs[i].status = "run"
               /\ jobs[i].handle \in {"exited", "failed"}
               /\ jobs[i].type = "download"
               /\ jobs[i].file_handle # NoFile
               /\ files[jobs[i].file_handle].full_path \in DOMAIN disk
               => /\ files'[jobs[i].file_handle].status = "READY"
                  /\ files'[jobs[i].file_handle].is_complete
                  /\ \A k \in DOMAIN jobs' : jobs'[k].oid # jobs[i].oid]_vars

\* Every subprocess has failed, and yet a FileRecord is READY and complete by
\* the poll of its job, and no job is left to fetch the file again.
C37_FailedButReady ==
    /\ pc = "check"
    /\ \E r \in DOMAIN files :
           /\ files[r].status = "READY" /\ files[r].is_complete
           /\ files[r].current_size = "size"
           /\ \A k \in DOMAIN jobs : jobs[k].file_handle # r

(***************************************************************************)
(* C38: one job per file                                                   *)
(***************************************************************************)
\* C38: between poll cycles each FileRecord is the file_handle of at most one
\* job of the registry, and no two jobs of the registry have the same
\* expected_output_file.
C38_OneJobPerFile ==
    pc \in {"check", "read"} =>
        \A i, k \in DOMAIN jobs :
            i # k =>
                /\ jobs[i].file_handle # NoFile
                   => jobs[i].file_handle # jobs[k].file_handle
                /\ jobs[i].expected_output_file # NoPath
                   => jobs[i].expected_output_file # jobs[k].expected_output_file

(***************************************************************************)
(* C39: agents started in one directory                                    *)
(***************************************************************************)
AgentsInRunLoop ==
    Cardinality({a \in PeerIds : peers[a] = "running"})
        + (IF Running THEN 1 ELSE 0)

\* C39: the teardown of an agent whose start failed on an existing PID file
\* leaves the PID and the STOP marker as they are, and at no time are two
\* agents of the directory in their run loops.
C39_FailedStartKeepsMarkers ==
    /\ [](AgentsInRunLoop <= 1)
    /\ [][/\ pc = "failed" /\ pc' = "deleted"
             => UNCHANGED <<pid_file, stop_file>>
          /\ \A a \in PeerIds :
                 peers[a] = "failed" /\ peers'[a] = "deleted"
                 => UNCHANGED <<pid_file, stop_file>>]_vars

====
